---------------------------- MODULE Spec2Model ----------------------------
(***************************************************************************)
(* Model of spotdl's download orchestration (download/downloader.py), its   *)
(* tracking store (download/trackingfileHandlers.py), the transcoder call   *)
(* (download/ffmpeg.py) and the song dump round trip (search/song_object.py *)
(* and search/song_gatherer.py).                                            *)
(*                                                                         *)
(* One asyncio event loop runs the coroutines: everything between two       *)
(* awaits of a coroutine is one atomic action.  The audio fetch runs in a   *)
(* worker thread and the transcoder in a subprocess: each finishes in an    *)
(* action of its own, and the coroutine resumes in a later one.             *)
(***************************************************************************)
EXTENDS Integers, Sequences, FiniteSets, TLC

\* ------------------------------------------------------------------ bounds
MaxSongs == 3
MaxPool == 2
MaxResumeSongs == 2
MaxFairSongs == 2

\* DownloadManager.pool_size
DefaultPoolSize == 4

\* the pool sizes a DownloadManager is constructed with
PoolSizes == (1..MaxPool) \cup {DefaultPoolSize}

None == "None"

\* None where a client is expected (Singleton._instance); the clients that
\* are constructed are numbered from 1
NoInstance == [number |-> 0]

\* None where a path is expected (DownloadTracker.save_file)
NoPath == [dir |-> "None", name |-> <<>>, ext |-> "None"]

\* ------------------------------------------------------------------ songs
Letters == <<"a", "b", "c", "d", "e", "f", "g", "h">>

\* SongObject(rawTrackMeta, rawAlbumMeta, rawArtistMeta, youtubeLink, lyrics)
SongObject(rawTrackMeta, rawAlbumMeta, rawArtistMeta, youtubeLink, lyrics) ==
    [rawTrackMeta |-> rawTrackMeta, rawAlbumMeta |-> rawAlbumMeta,
     rawArtistMeta |-> rawArtistMeta, youtubeLink |-> youtubeLink,
     lyrics |-> lyrics]

\* The k-th song of the catalog.  Album and artist metadata are different
\* Spotify responses: they differ for the odd songs and agree for the even
\* ones; lyrics are absent for every third song.
CatalogSong(k) ==
    SongObject([name |-> <<Letters[k]>>, artists |-> <<"x">>],
               [genres |-> <<"pop">>],
               [genres |-> IF k % 2 = 1 THEN <<"rock">> ELSE <<"pop">>],
               <<"yt", Letters[k]>>,
               IF k % 3 = 0 THEN None ELSE "la")

\* another release of a song: the same title and artists, on another album
\* and with another YouTube link
OtherRelease(song) ==
    SongObject(song.rawTrackMeta, [genres |-> <<"live">>], song.rawArtistMeta,
               song.youtubeLink \o <<"2">>, song.lyrics)

song_name(song) == song.rawTrackMeta.name

\* SongObject.data_dump
data_dump(song) ==
    [youtube_link |-> song.youtubeLink,
     raw_track_meta |-> song.rawTrackMeta,
     raw_album_meta |-> song.rawAlbumMeta,
     raw_artist_meta |-> song.rawArtistMeta,
     lyrics |-> song.lyrics]

\* SongObject.__eq__
SongEq(s1, s2) == data_dump(s1) = data_dump(s2)

\* song_gatherer.from_dump
from_dump(dump) ==
    SongObject(dump.raw_track_meta, dump.raw_album_meta, dump.raw_album_meta,
               dump.youtube_link, dump.lyrics)


\* ------------------------------------------------------------------ paths
output_format == "mp3"

\* ffmpeg.convert: the formats it has encoder arguments for
formats ==
    [fmt \in {"mp3", "flac", "ogg", "opus", "m4a"} |->
        IF fmt = "mp3" THEN <<"-codec:a", "libmp3lame">>
        ELSE IF fmt = "flac" THEN <<"-codec:a", "flac">>
        ELSE IF fmt = "ogg" THEN <<"-codec:a", "libvorbis">>
        ELSE IF fmt = "opus" THEN <<"-codec:a", "libopus">>
        ELSE <<"-codec:a", "aac", "-vn">>]

DisallowedChars == {"/", "?", "\\", "*", "|", "<", ">"}

RECURSIVE StripDisallowed(_)
StripDisallowed(str) ==
    IF str = <<>> THEN <<>>
    ELSE IF Head(str) \in DisallowedChars THEN StripDisallowed(Tail(str))
    ELSE <<Head(str)>> \o StripDisallowed(Tail(str))

RECURSIVE ReplaceChar(_, _, _)
ReplaceChar(str, old, new) ==
    IF str = <<>> THEN <<>>
    ELSE (IF Head(str) = old THEN new ELSE <<Head(str)>>)
         \o ReplaceChar(Tail(str), old, new)

\* downloader._sanitize_filename
_sanitize_filename(input_str) ==
    ReplaceChar(ReplaceChar(StripDisallowed(input_str), "\"", <<"'">>),
                ":", <<"-">>)

RECURSIVE JoinArtists(_)
JoinArtists(artists) ==
    IF artists = <<>> THEN <<>>
    ELSE IF Len(artists) = 1 THEN <<artists[1]>>
    ELSE <<artists[1], ",", " ">> \o JoinArtists(Tail(artists))

\* downloader._get_converted_file_path: "<artists> - <song name>.<format>" in
\* the working directory (the song names of the catalog hold no artist name)
_get_converted_file_path(song_obj, fmt) ==
    [dir |-> ".",
     name |-> _sanitize_filename(JoinArtists(song_obj.rawTrackMeta.artists)
                                 \o <<" ", "-", " ">> \o song_name(song_obj)),
     ext |-> fmt]

\* every song a process can hold: the catalog's songs, as made by the search
\* and as read back from a tracking file
AllSongs ==
    {CatalogSong(k) : k \in 1..Len(Letters)}
        \cup {from_dump(data_dump(CatalogSong(k))) : k \in 1..Len(Letters)}
        \cup {OtherRelease(CatalogSong(k)) : k \in 1..Len(Letters)}

\* _get_converted_file_path for the default format, computed once per song
ConvertedFilePath ==
    [song \in AllSongs |-> _get_converted_file_path(song, output_format)]

temp_folder == [dir |-> ".", name |-> <<"T", "e", "m", "p">>, ext |-> "dir"]

\* the file pytube writes: Temp/<converted file name>.<subtype>
TempFilePath(converted_file_path) ==
    [dir |-> "Temp", name |-> converted_file_path.name, ext |-> "mp4"]

\* a name that is the title as it is
TrackingFileName_raw(first_song) ==
    [dir |-> ".", name |-> song_name(first_song), ext |-> "spotdlTrackingFile"]

\* DownloadTracker.backup_to_disk: the name of a fresh tracking file
TrackingFileName(first_song) ==
    [dir |-> ".",
     name |-> ReplaceChar(ReplaceChar(StripDisallowed(song_name(first_song)),
                                      "\"", <<"'">>),
                          ":", <<" ", "-", " ">>),
     ext |-> "spotdlTrackingFile"]

\* ------------------------------------------------- the tracking file format
\* str(dict): the key/value pairs of one dump, in insertion order
StrDump(dump) ==
    << <<"youtube_link", dump.youtube_link>>,
       <<"raw_track_meta", dump.raw_track_meta>>,
       <<"raw_album_meta", dump.raw_album_meta>>,
       <<"raw_artist_meta", dump.raw_artist_meta>>,
       <<"lyrics", dump.lyrics>> >>

\* str(songDataDumps).encode()
StrDumps(dumps) == [k \in 1..Len(dumps) |-> StrDump(dumps[k])]

Lookup(pairs, key) ==
    pairs[CHOOSE k \in 1..Len(pairs) : pairs[k][1] = key][2]

\* eval(...) of one written dump
EvalDump(pairs) ==
    [youtube_link |-> Lookup(pairs, "youtube_link"),
     raw_track_meta |-> Lookup(pairs, "raw_track_meta"),
     raw_album_meta |-> Lookup(pairs, "raw_album_meta"),
     raw_artist_meta |-> Lookup(pairs, "raw_artist_meta"),
     lyrics |-> Lookup(pairs, "lyrics")]

\* eval(file_handle.read().decode())
EvalDumps(content) == [k \in 1..Len(content) |-> EvalDump(content[k])]

\* ------------------------------------------------------------------ state
VARIABLES
    _instance,       \* Singleton._instance as SpotifyClient sees it
    arguments,       \* DownloadManager.arguments
    call,            \* the call of a module-level function: name, args, result
    display_manager, \* DownloadManager.display_manager and its progress trackers
    pool_size,       \* DownloadManager.pool_size of this process
    semaphore,       \* value of DownloadManager.semaphore
    thread_executor, \* DownloadManager.thread_executor: its workers and its queue
    loop,            \* "idle", "running", "blocked" (a coroutine makes a call that
                     \* waits, on the thread of the loop), "returned", "raised",
                     \* "interrupted"
    song_obj_list,   \* the batch handed to _download_asynchronously
    song_list_id,    \* the list object DownloadTracker.song_list names
    task,            \* one _pool_download coroutine per song of the batch
    song_list,       \* DownloadTracker.song_list
    save_file,       \* DownloadTracker.save_file
    tracker_op,      \* the last DownloadTracker method that returned, or the
                     \* error the last one raised
    files,           \* the audio files and folders that exist on disk
    tracking_files   \* the tracking files on disk: path -> content

vars ==
    <<_instance, arguments, thread_executor, call, display_manager, pool_size,
      semaphore, loop, song_obj_list, task, song_list, song_list_id, save_file,
      tracker_op, files, tracking_files>>

Tasks == DOMAIN task

\* no module-level function has been called
NoCall == [function |-> "None"]

\* converted_file_path of download_song: the format of the arguments is the
\* extension of the file
converted_file_path_of(song) ==
    [ConvertedFilePath[song] EXCEPT !.ext = arguments.format]

\* a coroutine that has not started: it waits for the semaphore (returncode
\* is -1 until the transcoder process has exited)
NewTask ==
    [pc |-> "pending", state |-> "Pending", downloaded |-> "unset",
     returncode |-> -1, calls |-> <<>>, raised |-> FALSE,
     tracker |-> "unset", outcomes |-> <<>>]

Terminal == {"Complete", "Skipped", "Failed"}

\* a deletion that leaves the file on disk
Without_keeps(f, p) == f

\* the files of a disk without the one at path p
Without(f, p) == [q \in DOMAIN f \ {p} |-> f[q]]

With(f, p, v) == [q \in DOMAIN f \cup {p} |-> IF q = p THEN v ELSE f[q]]

\* --------------------------------------------------------- DownloadTracker
\* a removal that drops every element equal to x
Remove_all(list, song) == SelectSeq(list, LAMBDA x : ~SongEq(x, song))

\* list.remove(x): drops the first element equal to x
RECURSIVE Remove(_, _)
Remove(list, song) ==
    IF list = <<>> THEN <<>>
    ELSE IF SongEq(Head(list), song) THEN Tail(list)
    ELSE <<Head(list)>> \o Remove(Tail(list), song)

Contains(list, song) == \E k \in 1..Len(list) : SongEq(list[k], song)

DataDumps(list) == [k \in 1..Len(list) |-> data_dump(list[k])]

\* the list DownloadTracker.__init__ and clear() make: "self.song_list = []"
OwnList == "[]"

\* the list object a caller hands to load_song_list
GivenList == "song_list"

\* DownloadTracker.load_song_list: "self.song_list = song_list" makes the
\* attribute name the list object it is given, no copy is made
load_song_list == GivenList

\* DownloadTracker.backup_to_disk: the tracker's file reference and the
\* tracking files after the call
backup_to_disk(queue, file, disk) ==
    IF Len(queue) = 0
    THEN [save_file |-> file,
          tracking_files |->
              IF file # NoPath /\ file \in DOMAIN disk
              THEN Without(disk, file) ELSE disk]
    ELSE LET target == IF file = NoPath THEN TrackingFileName(queue[1]) ELSE file
         IN  [save_file |-> target,
              tracking_files |-> With(disk, target, StrDumps(DataDumps(queue)))]

\* DownloadTracker.notify_download_completion: the queue after the call
notify_download_completion(queue, song_object) ==
    IF Contains(queue, song_object) THEN Remove(queue, song_object) ELSE queue

\* DownloadTracker.load_tracking_file: the songs read from a tracking file
load_tracking_file(content) ==
    LET songDataDumps == EvalDumps(content)
    IN  [k \in 1..Len(songDataDumps) |-> from_dump(songDataDumps[k])]


\* a test that finds no file, whatever the disk holds
is_file_never(disk, path) == FALSE

\* Path.is_file
is_file(disk, path) == path \in disk

\* an unlink that leaves the file where it is
unlink_noop(disk, path) == disk

\* Path.unlink of a file that exists: the files after the call
unlink(disk, path) == disk \ {path}

\* ---------------------------------------------------------- DisplayManager
\* the trackers new_progress_tracker can hand out: one that is truthy and
\* whose callbacks return, one that is falsy, one whose callbacks raise
TrackerKinds == {"sound", "falsy", "raising"}

\* DisplayManager(): no song counted, no progress made, no tracker handed out;
\* its trackers are truthy and their callbacks return
DisplayManager ==
    [song_count |-> 0, overall |-> 0, trackers |-> <<>>, hands_out |-> {"sound"}]

\* DisplayManager.set_song_count_to(count): the size of the batch
set_song_count_to(dm, count) == [dm EXCEPT !.song_count = count]

\* DisplayManager.new_progress_tracker(song): the tracker of item i, no
\* progress made
new_progress_tracker(dm, i) == [dm EXCEPT !.trackers = With(@, i, 0)]

\* an update that writes the overall figure back from the tracker's own view
update_overwrites(dm, i, amount) ==
    [dm EXCEPT !.overall = dm.trackers[i] + amount,
               !.trackers = [@ EXCEPT ![i] = @ + amount]]

\* one update of a tracker: the amount is added to the progress of the item
\* and to the overall figure, in one step
update(dm, i, amount) ==
    [dm EXCEPT !.overall = @ + amount,
               !.trackers = [@ EXCEPT ![i] = @ + amount]]

\* the tracker's pytube_progress_hook, called by pytube for a chunk written
pytube_progress_hook(dm, i) == update(dm, i, 1)

\* the notifications of a tracker that report progress
TrackerCallbacks ==
    {"notify_download_skip", "notify_youtube_download_completion",
     "notify_conversion_completion", "notify_download_completion", "notify_error"}

\* the display manager after download_song of item i has made these calls
RECURSIVE Notified(_, _, _)
Notified(dm, i, names) ==
    IF names = <<>> THEN dm
    ELSE LET name == Head(names)
             after == IF name = "new_progress_tracker" THEN new_progress_tracker(dm, i)
                      ELSE IF name \in TrackerCallbacks THEN update(dm, i, 1)
                      ELSE dm
         IN  Notified(after, i, Tail(names))

\* ------------------------------------------------------ ThreadPoolExecutor
\* an executor with one worker, whatever the size asked for
ThreadPoolExecutor_single(max_workers) ==
    [max_workers |-> 1, running |-> {}, queue |-> <<>>]

\* concurrent.futures.ThreadPoolExecutor(max_workers): no work runs, none is
\* queued
ThreadPoolExecutor(max_workers) ==
    [max_workers |-> max_workers, running |-> {}, queue |-> <<>>]

\* run_in_executor(thread_executor, ...) for item i: an idle worker takes the
\* work, with every worker busy it is queued
submit(executor, i) ==
    IF Cardinality(executor.running) < executor.max_workers
    THEN [executor EXCEPT !.running = @ \cup {i}]
    ELSE [executor EXCEPT !.queue = Append(@, i)]

\* the worker of item i is done and takes the work that has waited longest
work_done(executor, i) ==
    IF executor.queue = <<>>
    THEN [executor EXCEPT !.running = @ \ {i}]
    ELSE [executor EXCEPT !.running = (@ \ {i}) \cup {Head(executor.queue)},
                          !.queue = Tail(@)]

\* ------------------------------------------------------------- the process
\* The state after DownloadManager(): an idle loop, a full semaphore and an
\* empty tracker.  The working directory may already hold converted files of
\* earlier runs.
Catalog == [k \in 1..Len(Letters) |-> CatalogSong(k)]

FinalPaths == {ConvertedFilePath[Catalog[k]] : k \in 1..MaxSongs}

\* DownloadManager(arguments): a missing format is "mp3", any other is kept
DownloadManager(args) ==
    /\ arguments = IF "format" \in DOMAIN args THEN args ELSE [format |-> "mp3"]
    /\ semaphore = pool_size
    /\ loop = "idle"
    /\ song_obj_list = <<>>
    /\ task = <<>>
    /\ song_list = <<>>
    /\ song_list_id = OwnList
    /\ save_file = NoPath
    /\ tracker_op = "__init__"
    /\ display_manager = DisplayManager
    /\ thread_executor = ThreadPoolExecutor(pool_size)
    /\ _instance = NoInstance

Init ==
    /\ pool_size \in PoolSizes
    /\ DownloadManager(<<>>)
    /\ call = NoCall
    /\ files \in SUBSET FinalPaths
    /\ tracking_files = <<>>

\* DownloadManager._download_asynchronously: one task per song, then the loop
\* runs until asyncio.gather is done
_download_asynchronously(songs) ==
    /\ song_obj_list' = songs
    /\ task' = [i \in 1..Len(songs) |-> NewTask]
    /\ loop' = "running"

\* DownloadManager.download_multiple_songs(song_list) (download_single_song
\* is the same call with a list of one song)
download_multiple_songs_of(songs) ==
    /\ loop = "idle"
    /\ LET \* download_tracker.clear(), then load_song_list(song_list)
           saved == backup_to_disk(songs, NoPath, tracking_files)
       IN  /\ song_list' = songs
           /\ song_list_id' = load_song_list
           /\ save_file' = saved.save_file
           /\ tracking_files' = saved.tracking_files
           /\ tracker_op' = "load_song_list"
           /\ display_manager' = set_song_count_to(display_manager, Len(songs))
           /\ _download_asynchronously(songs)
    /\ UNCHANGED <<_instance, arguments, thread_executor, call, pool_size, semaphore, files>>

\* download_multiple_songs with the first n songs of the catalog
download_multiple_songs(n) == download_multiple_songs_of(SubSeq(Catalog, 1, n))

\* ---------------------------------------------------------- one pipeline
Call(i, names) == [task[i] EXCEPT !.calls = @ \o names]

\* the display manager after the calls download_song of item i makes in this
\* step (a new_progress_tracker that raises hands out no tracker)
NotifiedBy(i) ==
    IF task'[i].raised THEN display_manager
    ELSE Notified(display_manager, i,
                  SubSeq(task'[i].calls, Len(task[i].calls) + 1, Len(task'[i].calls)))

\* an end that leaves the coroutine where it started
Finish_restarts(t, state) == [t EXCEPT !.pc = "pending", !.state = state]

\* the coroutine of song i ends: download_song returns (or raises) and
\* "async with" releases the semaphore
Finish(t, state) == [t EXCEPT !.pc = "done", !.state = state]

\* a gate that admits every task, whatever the value of the semaphore
CanAcquire_unbounded(i) ==
    \A j \in Tasks : j < i => task[j].pc # "pending"

\* asyncio.Semaphore.acquire as _pool_download uses it: a task enters when the
\* value is positive; the waiters are woken in the order the tasks were made
CanAcquire(i) ==
    /\ semaphore > 0
    /\ \A j \in Tasks : j < i => task[j].pc # "pending"

\* DownloadTracker.notify_download_completion(song) and its backup_to_disk
TrackerCompletion(song) ==
    LET queue == notify_download_completion(song_list, song)
        saved == backup_to_disk(queue, save_file, tracking_files)
    IN  /\ song_list' = queue
        /\ save_file' = saved.save_file
        /\ tracking_files' = saved.tracking_files
        /\ tracker_op' = "notify_download_completion"

TrackerUnchanged == UNCHANGED <<song_list, save_file, tracking_files, tracker_op>>

\* an external outcome the pipeline of an item has met
Outcome(t, outcome) == [t EXCEPT !.outcomes = Append(@, outcome)]

\* "if display_progress_tracker: display_progress_tracker.<name>()": a
\* tracker that is falsy is not called
Notify(t, names) ==
    IF t.tracker = "sound" THEN [t EXCEPT !.calls = @ \o names] ELSE t

\* the except clause of download_song: a truthy tracker is told of the error
\* (and raises if its callbacks do), without one the error is raised again
Except(t) ==
    IF t.tracker = "sound"
    THEN Finish([t EXCEPT !.calls = @ \o <<"notify_error">>], "Failed")
    ELSE IF t.tracker = "falsy"
    THEN [Finish(t, "Failed") EXCEPT !.raised = TRUE]
    ELSE [Finish([t EXCEPT !.calls = @ \o <<"notify_error">>], "Failed")
              EXCEPT !.raised = TRUE]

\* _pool_download acquires the semaphore and download_song runs up to its
\* return for a song that is skipped, or up to the lookup of the stream
_pool_download(i) ==
    /\ loop = "running"
    /\ task[i].pc = "pending"
    /\ CanAcquire(i)
    /\ LET song == song_obj_list[i]
           converted_file_path == converted_file_path_of(song)
       IN
       \/ \* new_progress_tracker raises: outside the try, the task fails
          /\ task' = [task EXCEPT ![i] =
                 [Finish(Call(i, <<"new_progress_tracker">>), "Failed")
                      EXCEPT !.raised = TRUE]]
          /\ UNCHANGED <<semaphore, files>>
          /\ TrackerUnchanged
       \/ \E kind \in display_manager.hands_out :
          LET t == [Call(i, <<"new_progress_tracker">>) EXCEPT !.tracker = kind]
          IN
          \/ \* temp_folder.mkdir() raises, or _get_converted_file_path after it
             /\ \/ temp_folder \notin files /\ files' = files
                \/ files' = files \cup {temp_folder}
             /\ task' = [task EXCEPT ![i] = Except(Outcome(t, "mkdir raises"))]
             /\ UNCHANGED semaphore
             /\ TrackerUnchanged
          \/ \* the converted file is already there: skip
             /\ is_file(files, converted_file_path)
             /\ kind # "raising"
             /\ files' = files \cup {temp_folder}
             /\ task' = [task EXCEPT ![i] =
                    Finish([Outcome(t, "is a file") EXCEPT !.calls =
                                @ \o <<"notify_download_skip",
                                       "tracker.notify_download_completion">>],
                           "Skipped")]
             /\ TrackerCompletion(song)
             /\ UNCHANGED semaphore
          \/ \* the converted file is already there, notify_download_skip raises
             /\ is_file(files, converted_file_path)
             /\ kind = "raising"
             /\ files' = files \cup {temp_folder}
             /\ task' = [task EXCEPT ![i] =
                    Except([Outcome(t, "is a file") EXCEPT !.calls =
                                @ \o <<"notify_download_skip">>])]
             /\ UNCHANGED semaphore
             /\ TrackerUnchanged
          \/ \* YouTube(...) and the stream query are called in the coroutine:
             \* the thread of the loop waits for the answers of the network
             /\ ~is_file(files, converted_file_path)
             /\ files' = files \cup {temp_folder}
             /\ task' = [task EXCEPT ![i] =
                    [t EXCEPT !.calls = @ \o <<"YouTube">>, !.pc = "lookup"]]
             /\ semaphore' = semaphore - 1
             /\ TrackerUnchanged
    /\ loop' = IF task'[i].pc = "lookup" THEN "blocked" ELSE loop
    /\ display_manager' = NotifiedBy(i)
    /\ UNCHANGED <<_instance, arguments, thread_executor, call, pool_size, song_obj_list,
                   song_list_id>>

\* the answers of the network are there: YouTube(...) and the stream query
\* return or raise, and download_song runs up to its first await (the fetch
\* handed to the thread pool)
StreamLookup(i) ==
    /\ loop = "blocked"
    /\ task[i].pc = "lookup"
    /\ LET t == task[i]
       IN
       \/ \* YouTube(...) or the stream query raises
          /\ task' = [task EXCEPT ![i] = Except(Outcome(t, "YouTube raises"))]
          /\ semaphore' = semaphore + 1
          /\ UNCHANGED thread_executor
       \/ \* no audio stream: printed, return None
          /\ task' = [task EXCEPT ![i] = Finish(Outcome(t, "no stream"), "Failed")]
          /\ semaphore' = semaphore + 1
          /\ UNCHANGED thread_executor
       \/ \* await _perform_audio_download_async: the fetch goes to the
          \* thread pool
          /\ task' = [task EXCEPT ![i] =
                 [Outcome([t EXCEPT !.calls = @ \o <<"download">>], "stream")
                      EXCEPT !.pc = "fetching", !.state = "Fetching"]]
          /\ thread_executor' = submit(thread_executor, i)
          /\ UNCHANGED semaphore
    /\ loop' = "running"
    /\ TrackerUnchanged
    /\ display_manager' = NotifiedBy(i)
    /\ UNCHANGED <<_instance, arguments, call, pool_size, song_obj_list, files,
                   song_list_id>>


\* DownloadManager._perform_audio_download, in a worker thread: pytube writes
\* the temporary file, or the download fails and the temporary files of this
\* song are deleted
_perform_audio_download(i) ==
    /\ loop \in {"running", "blocked", "raised"}
    /\ task[i].pc = "fetching"
    /\ i \in thread_executor.running
    /\ thread_executor' = work_done(thread_executor, i)
    /\ LET temp_file == TempFilePath(
               converted_file_path_of(song_obj_list[i]))
           t == task[i]
       IN  \/ \* the last chunk is written: pytube calls the progress hook, if
              \* the tracker has handed one over
              /\ t.tracker # "raising"
              /\ files' = files \cup {temp_file}
              /\ task' = [task EXCEPT ![i] =
                     [Outcome(t, "fetched") EXCEPT !.pc = "fetched",
                                                   !.downloaded = "path"]]
              /\ display_manager' =
                     IF t.tracker = "sound"
                     THEN pytube_progress_hook(display_manager, i)
                     ELSE display_manager
           \/ \* the progress hook raises in stream.download: the bare except
              \* deletes what was written and the fetch counts as failed
              /\ t.tracker = "raising"
              /\ files' = unlink(files, temp_file)
              /\ task' = [task EXCEPT ![i] =
                     [Outcome(t, "fetched") EXCEPT !.pc = "fetched",
                                                   !.downloaded = None]]
              /\ UNCHANGED display_manager
           \/ /\ files' = unlink(files, temp_file)
              /\ task' = [task EXCEPT ![i] =
                     [Outcome(t, "fetch fails") EXCEPT !.pc = "fetched",
                                                       !.downloaded = None]]
              /\ UNCHANGED display_manager
    /\ UNCHANGED <<_instance, arguments, call, pool_size, semaphore, loop, song_obj_list,
                   song_list, save_file, tracker_op, tracking_files, song_list_id>>

\* a failed fetch that marks the song complete in the tracker all the same
FetchFailed_marks(i) ==
    /\ task[i].downloaded = None
    /\ task' = [task EXCEPT ![i] = Finish(task[i], "Failed")]
    /\ semaphore' = semaphore + 1
    /\ TrackerCompletion(song_obj_list[i])

\* download_song after a failed fetch (downloaded_file_path_string is None):
\* return None, the song stays in the tracker's queue
FetchFailed(i) ==
    /\ task[i].downloaded = None
    /\ task' = [task EXCEPT ![i] = Finish(task[i], "Failed")]
    /\ semaphore' = semaphore + 1
    /\ TrackerUnchanged

\* download_song resumes with the result of the fetch and runs up to the
\* await of the transcoder process in ffmpeg.convert
AfterDownload(i) ==
    /\ loop = "running"
    /\ task[i].pc = "fetched"
    /\ LET t == [Notify(task[i], <<"notify_youtube_download_completion">>)
                     EXCEPT !.calls = @ \o <<"convert">>]
       IN
       \/ FetchFailed(i)
       \/ \* ffmpeg.convert raises before a process runs (a format without
          \* encoder arguments, no ffmpeg executable)
          /\ task[i].downloaded = "path"
          /\ task' = [task EXCEPT ![i] = Except(Outcome(t, "convert raises"))]
          /\ semaphore' = semaphore + 1
          /\ TrackerUnchanged
       \/ \* the transcoder process is started
          /\ task[i].downloaded = "path"
          /\ arguments.format \in DOMAIN formats
          /\ task' = [task EXCEPT ![i] =
                 [Outcome(t, "process") EXCEPT !.pc = "converting",
                                               !.state = "Converting"]]
          /\ UNCHANGED semaphore
          /\ TrackerUnchanged
    /\ display_manager' = NotifiedBy(i)
    /\ UNCHANGED <<_instance, arguments, thread_executor, call, pool_size, loop,
                   song_obj_list, files, song_list_id>>

\* the transcoder process exits: with 0 and the converted file written, or
\* with an error, having written a partial converted file or none
FfmpegExit(i) ==
    /\ loop \in {"running", "blocked", "raised"}
    /\ task[i].pc = "converting"
    /\ LET converted_file_path ==
               converted_file_path_of(song_obj_list[i])
           t == [task[i] EXCEPT !.pc = "converted"]
       IN  \/ /\ files' = files \cup {converted_file_path}
              /\ task' = [task EXCEPT ![i] =
                     [Outcome(t, "exit 0") EXCEPT !.returncode = 0]]
           \/ /\ files' = files \cup {converted_file_path}
              /\ task' = [task EXCEPT ![i] =
                     [Outcome(t, "exit 1, file") EXCEPT !.returncode = 1]]
           \/ /\ files' = files
              /\ task' = [task EXCEPT ![i] =
                     [Outcome(t, "exit 1, no file") EXCEPT !.returncode = 1]]
    /\ UNCHANGED <<_instance, arguments, thread_executor, call, display_manager, pool_size,
                   semaphore, loop, song_obj_list, song_list, save_file, tracker_op,
                   tracking_files, song_list_id>>

\* a transcoder call that reports success whatever the exit code
convert_always(returncode) == TRUE

\* ffmpeg.convert: the return value for an exit code
convert(returncode) == IF returncode # 0 THEN FALSE ELSE TRUE

\* the cleanup at the end of download_song: the completion notifications and
\* the deletion of the temporary file
Cleanup(i, t, disk) ==
    LET song == song_obj_list[i]
        temp_file == TempFilePath(converted_file_path_of(song))
    IN  /\ TrackerCompletion(song)
        /\ files' = unlink(disk, temp_file)
        /\ task' = [task EXCEPT ![i] =
               [Notify(t, <<"notify_download_completion">>) EXCEPT !.calls =
                    @ \o <<"tracker.notify_download_completion">>]]

\* download_song resumes with the result of ffmpeg.convert and runs to its end
AfterConvert(i) ==
    /\ loop = "running"
    /\ task[i].pc = "converted"
    /\ LET converted_file_path ==
               converted_file_path_of(song_obj_list[i])
           ffmpeg_success == convert(task[i].returncode)
           t == Notify(task[i], <<"notify_conversion_completion">>)
       IN
       \/ \* converted_file_path.unlink() of a file that is not there raises
          /\ ffmpeg_success = FALSE
          /\ converted_file_path \notin files
          /\ task' = [task EXCEPT ![i] = Except(t)]
          /\ UNCHANGED files
          /\ TrackerUnchanged
       \/ \* the file that was not converted is deleted, then the cleanup runs
          /\ ffmpeg_success = FALSE
          /\ converted_file_path \in files
          /\ Cleanup(i, Finish(t, "Failed"), unlink(files, converted_file_path))
       \/ \* set_id3_data raises
          /\ ffmpeg_success = TRUE
          /\ task' = [task EXCEPT ![i] =
                 Except(Outcome([t EXCEPT !.calls = @ \o <<"set_id3_data">>],
                                "set_id3_data raises"))]
          /\ UNCHANGED files
          /\ TrackerUnchanged
       \/ \* the converted file is tagged, then the cleanup runs
          /\ ffmpeg_success = TRUE
          /\ Cleanup(i, Finish(Outcome([t EXCEPT !.calls = @ \o <<"set_id3_data">>],
                                       "set_id3_data"), "Complete"), files)
    /\ semaphore' = semaphore + 1
    /\ display_manager' = NotifiedBy(i)
    /\ UNCHANGED <<_instance, arguments, thread_executor, call, pool_size, loop,
                   song_obj_list, song_list_id>>

\* a wait that ends with the first finished task instead of the last
BatchReturn_first ==
    /\ loop = "running"
    /\ \E i \in Tasks : task[i].pc = "done" /\ ~task[i].raised
    /\ loop' = "returned"
    /\ UNCHANGED <<_instance, arguments, thread_executor, call, display_manager, pool_size,
                   semaphore, song_obj_list, task, song_list, save_file, tracker_op, files,
                   tracking_files, song_list_id>>

\* asyncio.gather is done when every task is: run_until_complete returns
BatchReturn ==
    /\ loop = "running"
    /\ \A i \in Tasks : task[i].pc = "done" /\ ~task[i].raised
    /\ loop' = "returned"
    /\ UNCHANGED <<_instance, arguments, thread_executor, call, display_manager, pool_size,
                   semaphore, song_obj_list, task, song_list, save_file, tracker_op, files,
                   tracking_files, song_list_id>>

\* asyncio.gather hands on the first exception of a task: run_until_complete
\* raises it and the loop stops with the other tasks where they are
BatchRaise ==
    /\ loop = "running"
    /\ \E i \in Tasks : task[i].raised
    /\ loop' = "raised"
    /\ UNCHANGED <<_instance, arguments, thread_executor, call, display_manager, pool_size,
                   semaphore, song_obj_list, task, song_list, save_file, tracker_op, files,
                   tracking_files, song_list_id>>

Next ==
    \/ \E n \in 0..MaxSongs : download_multiple_songs(n)
    \/ \E i \in Tasks : _pool_download(i)
    \/ \E i \in Tasks : StreamLookup(i)
    \/ \E i \in Tasks : _perform_audio_download(i)
    \/ \E i \in Tasks : AfterDownload(i)
    \/ \E i \in Tasks : FfmpegExit(i)
    \/ \E i \in Tasks : AfterConvert(i)
    \/ BatchReturn
    \/ BatchRaise

Spec == Init /\ [][Next]_vars

\* The loop runs every ready callback, and every fetch and every transcoder
\* process ends: no step that can be taken is put off for ever.
InitFair ==
    /\ Init
    /\ files \in SUBSET {ConvertedFilePath[Catalog[k]] : k \in 1..MaxFairSongs}

NextFair ==
    \/ \E n \in 0..MaxFairSongs : download_multiple_songs(n)
    \/ \E i \in Tasks : _pool_download(i)
    \/ \E i \in Tasks : StreamLookup(i)
    \/ \E i \in Tasks : _perform_audio_download(i)
    \/ \E i \in Tasks : AfterDownload(i)
    \/ \E i \in Tasks : FfmpegExit(i)
    \/ \E i \in Tasks : AfterConvert(i)
    \/ BatchReturn
    \/ BatchRaise

FairSpec == InitFair /\ [][NextFair]_vars /\ WF_vars(NextFair)

\* ------------------------------------------------- interruption and resume
\* The process is killed while the batch runs: its memory is gone (the
\* variables keep the last values for reference), the disk stays.
Interrupt ==
    /\ loop \in {"running", "blocked"}
    /\ loop' = "interrupted"
    /\ UNCHANGED <<_instance, arguments, thread_executor, call, display_manager, pool_size,
                   semaphore, song_obj_list, task, song_list, save_file, tracker_op, files,
                   tracking_files, song_list_id>>

\* DownloadManager.resume_download_from_tracking_file in a new process
resume_download_from_tracking_file(tracking_file_path) ==
    /\ loop = "interrupted"
    /\ semaphore' = pool_size
    /\ thread_executor' = ThreadPoolExecutor(pool_size)
    /\ song_list_id' = OwnList
    /\ IF tracking_file_path \notin DOMAIN tracking_files
       THEN \* load_tracking_file raises FileNotFoundError after clear()
            /\ song_list' = <<>>
            /\ save_file' = NoPath
            /\ tracker_op' = "FileNotFoundError"
            /\ song_obj_list' = <<>>
            /\ task' = <<>>
            /\ loop' = "raised"
            /\ display_manager' = DisplayManager
       ELSE /\ song_list' = load_tracking_file(tracking_files[tracking_file_path])
            /\ save_file' = tracking_file_path
            /\ tracker_op' = "load_tracking_file"
            /\ _download_asynchronously(song_list')
            /\ display_manager' = set_song_count_to(DisplayManager, Len(song_list'))
    /\ UNCHANGED <<_instance, arguments, call, pool_size, files, tracking_files>>

InitResume ==
    /\ Init
    /\ pool_size = DefaultPoolSize
    /\ files = {}

NextResume ==
    \/ \E n \in 0..MaxResumeSongs : download_multiple_songs(n)
    \/ \E i \in Tasks : _pool_download(i)
    \/ \E i \in Tasks : StreamLookup(i)
    \/ \E i \in Tasks : _perform_audio_download(i)
    \/ \E i \in Tasks : AfterDownload(i)
    \/ \E i \in Tasks : FfmpegExit(i)
    \/ \E i \in Tasks : AfterConvert(i)
    \/ BatchReturn
    \/ BatchRaise
    \/ Interrupt
    \/ \E path \in DOMAIN tracking_files \cup {save_file} :
           resume_download_from_tracking_file(path)

SpecResume == InitResume /\ [][NextResume]_vars


\* ------------------------------------------- a crash inside backup_to_disk
MaxCrashSongs == 2

\* open(self.save_file, "wb"): the file is created, or cut to no content
open_wb(disk, path) == With(disk, path, <<>>)

\* The process is killed inside backup_to_disk, between open(..., "wb") and
\* the write: the tracker holds the queue, the file is open and empty.  (With
\* an empty queue backup_to_disk opens no file.)
CrashInBackup(queue, file) ==
    /\ Len(queue) > 0
    /\ LET target == IF file = NoPath THEN TrackingFileName(queue[1]) ELSE file
       IN  /\ save_file' = target
           /\ tracking_files' = open_wb(tracking_files, target)
    /\ song_list' = queue
    /\ loop' = "interrupted"

\* the kill comes in the backup_to_disk of load_song_list
CrashInLoadSongList(n) ==
    /\ loop = "idle"
    /\ CrashInBackup(SubSeq(Catalog, 1, n), NoPath)
    /\ UNCHANGED <<_instance, arguments, thread_executor, call, display_manager, pool_size,
                   semaphore, song_obj_list, task, tracker_op, files, song_list_id>>

\* the kill comes in the backup_to_disk of notify_download_completion, called
\* by download_song for a skipped song or in its cleanup
CrashInCompletion(i) ==
    /\ loop = "running"
    /\ LET song == song_obj_list[i]
           converted_file_path == converted_file_path_of(song)
       IN  /\ \/ /\ task[i].pc = "pending"
                 /\ CanAcquire(i)
                 /\ is_file(files, converted_file_path)
                 /\ files' = files \cup {temp_folder}
                 /\ task' = [task EXCEPT ![i] =
                        Call(i, <<"new_progress_tracker", "notify_download_skip">>)]
              \/ /\ task[i].pc = "converted"
                 /\ convert(task[i].returncode) = FALSE
                 /\ converted_file_path \in files
                 /\ files' = unlink(files, converted_file_path)
                 /\ task' = [task EXCEPT ![i] =
                        Call(i, <<"notify_conversion_completion",
                                  "notify_download_completion">>)]
              \/ /\ task[i].pc = "converted"
                 /\ convert(task[i].returncode) = TRUE
                 /\ files' = files
                 /\ task' = [task EXCEPT ![i] =
                        Call(i, <<"notify_conversion_completion", "set_id3_data",
                                  "notify_download_completion">>)]
           /\ CrashInBackup(notify_download_completion(song_list, song), save_file)
    /\ display_manager' = NotifiedBy(i)
    /\ UNCHANGED <<_instance, arguments, thread_executor, call, pool_size, semaphore,
                   song_obj_list, tracker_op, song_list_id>>

InitCrash ==
    /\ Init
    /\ pool_size = DefaultPoolSize
    /\ files \in SUBSET {ConvertedFilePath[Catalog[k]] : k \in 1..MaxCrashSongs}

NextCrash ==
    \/ \E n \in 0..MaxCrashSongs : download_multiple_songs(n)
    \/ \E i \in Tasks : _pool_download(i)
    \/ \E i \in Tasks : StreamLookup(i)
    \/ \E i \in Tasks : _perform_audio_download(i)
    \/ \E i \in Tasks : AfterDownload(i)
    \/ \E i \in Tasks : FfmpegExit(i)
    \/ \E i \in Tasks : AfterConvert(i)
    \/ BatchReturn
    \/ BatchRaise
    \/ Interrupt
    \/ \E n \in 1..MaxCrashSongs : CrashInLoadSongList(n)
    \/ \E i \in Tasks : CrashInCompletion(i)

SpecCrash == InitCrash /\ [][NextCrash]_vars

\* --------------------------------------------------- the format argument
MaxFormatSongs == 2

\* the arguments a DownloadManager is made with: a format ffmpeg.convert
\* knows, or one it does not know
ArgumentInputs == {[format |-> fmt] : fmt \in DOMAIN formats \cup {"wav"}}

InitFormat ==
    /\ pool_size = DefaultPoolSize
    /\ \E args \in ArgumentInputs : DownloadManager(args)
    /\ call = NoCall
    /\ files = {}
    /\ tracking_files = <<>>

NextFormat ==
    \/ \E n \in 0..MaxFormatSongs : download_multiple_songs(n)
    \/ \E i \in Tasks : _pool_download(i)
    \/ \E i \in Tasks : StreamLookup(i)
    \/ \E i \in Tasks : _perform_audio_download(i)
    \/ \E i \in Tasks : AfterDownload(i)
    \/ \E i \in Tasks : FfmpegExit(i)
    \/ \E i \in Tasks : AfterConvert(i)
    \/ BatchReturn
    \/ BatchRaise

SpecFormat == InitFormat /\ [][NextFormat]_vars

\* ------------------------------------------- a playlist with repeated tracks
MaxPlaylistSongs == 3

\* a playlist of n tracks in which the first two songs of the catalog take
\* turns: a, b, a, ...
Playlist(n) == [k \in 1..n |-> Catalog[((k - 1) % 2) + 1]]

InitPlaylist ==
    /\ Init
    /\ pool_size = DefaultPoolSize
    /\ files = {}

NextPlaylist ==
    \/ \E n \in 0..MaxPlaylistSongs : download_multiple_songs_of(Playlist(n))
    \/ \E i \in Tasks : _pool_download(i)
    \/ \E i \in Tasks : StreamLookup(i)
    \/ \E i \in Tasks : _perform_audio_download(i)
    \/ \E i \in Tasks : AfterDownload(i)
    \/ \E i \in Tasks : FfmpegExit(i)
    \/ \E i \in Tasks : AfterConvert(i)
    \/ BatchReturn
    \/ BatchRaise

SpecPlaylist == InitPlaylist /\ [][NextPlaylist]_vars

\* ------------------------------------------ the tracker's methods, one by one
MaxQueue == 2

\* the songs handed to the tracker: two songs of the catalog
TrackerSongs == {Catalog[1], Catalog[2]}

\* the lists a caller gives to load_song_list (repeated songs included)
QueueInputs == UNION {[1..n -> TrackerSongs] : n \in 0..MaxQueue}

\* a path no tracking file is written to
MissingPath == [dir |-> ".", name |-> <<"n", "o">>, ext |-> "spotdlTrackingFile"]

\* DownloadTracker.load_song_list(song_list)
DownloadTracker_load_song_list(list) ==
    /\ LET saved == backup_to_disk(list, save_file, tracking_files)
       IN  /\ song_list' = list
           /\ song_list_id' = load_song_list
           /\ save_file' = saved.save_file
           /\ tracking_files' = saved.tracking_files
    /\ tracker_op' = "load_song_list"
    /\ UNCHANGED <<_instance, arguments, thread_executor, call, display_manager, pool_size,
                   semaphore, loop, song_obj_list, task, files>>

\* DownloadTracker.notify_download_completion(song_object)
DownloadTracker_notify_download_completion(song_object) ==
    /\ TrackerCompletion(song_object)
    /\ UNCHANGED <<_instance, arguments, thread_executor, call, display_manager, pool_size,
                   semaphore, loop, song_obj_list, task, files, song_list_id>>

\* a clear() that forgets the queue and keeps the backing file
DownloadTracker_clear_keeps_file ==
    /\ song_list' = <<>>
    /\ song_list_id' = OwnList
    /\ tracker_op' = "clear"
    /\ UNCHANGED <<_instance, arguments, thread_executor, call, display_manager, pool_size,
                   semaphore, loop, song_obj_list, task, save_file, files, tracking_files>>

\* DownloadTracker.clear()
DownloadTracker_clear ==
    /\ song_list' = <<>>
    /\ song_list_id' = OwnList
    /\ save_file' = NoPath
    /\ tracker_op' = "clear"
    /\ UNCHANGED <<_instance, arguments, thread_executor, call, display_manager, pool_size,
                   semaphore, loop, song_obj_list, task, files, tracking_files>>

\* a load that takes the path as its backing file before it looks for it
DownloadTracker_load_tracking_file_sets_first(trackingFilePath) ==
    /\ save_file' = trackingFilePath
    /\ IF trackingFilePath \notin DOMAIN tracking_files
       THEN /\ tracker_op' = "FileNotFoundError"
            /\ UNCHANGED song_list
       ELSE /\ Len(song_list) + Len(tracking_files[trackingFilePath]) <= MaxQueue
            /\ song_list' = song_list
                   \o load_tracking_file(tracking_files[trackingFilePath])
            /\ tracker_op' = "load_tracking_file"
    /\ UNCHANGED <<_instance, arguments, thread_executor, call, display_manager, pool_size,
                   semaphore, loop, song_obj_list, task, files, tracking_files,
                   song_list_id>>

\* DownloadTracker.load_tracking_file(trackingFilePath): raises when there is
\* no such file, else takes the file and appends its songs to the queue (the
\* queue is kept within MaxQueue songs)
DownloadTracker_load_tracking_file(trackingFilePath) ==
    /\ IF trackingFilePath \notin DOMAIN tracking_files
       THEN /\ tracker_op' = "FileNotFoundError"
            /\ UNCHANGED <<song_list, save_file>>
       ELSE /\ Len(song_list) + Len(tracking_files[trackingFilePath]) <= MaxQueue
            /\ song_list' = song_list
                   \o load_tracking_file(tracking_files[trackingFilePath])
            /\ save_file' = trackingFilePath
            /\ tracker_op' = "load_tracking_file"
    /\ UNCHANGED <<_instance, arguments, thread_executor, call, display_manager, pool_size,
                   semaphore, loop, song_obj_list, task, files, tracking_files,
                   song_list_id>>

InitTracker ==
    /\ Init
    /\ pool_size = DefaultPoolSize
    /\ files = {}

NextTracker ==
    \/ \E list \in QueueInputs : DownloadTracker_load_song_list(list)
    \/ \E song \in TrackerSongs : DownloadTracker_notify_download_completion(song)
    \/ DownloadTracker_clear
    \/ \E path \in DOMAIN tracking_files \cup {MissingPath} :
           DownloadTracker_load_tracking_file(path)

SpecTracker == InitTracker /\ [][NextTracker]_vars

\* ----------------------------------------------- the names of tracking files
MaxTitleLen == 2

\* the characters of a title: the ones backup_to_disk removes, the two it
\* replaces and an ordinary one
TitleChars == DisallowedChars \cup {"\"", ":", "a"}

Titles == UNION {[1..n -> TitleChars] : n \in 1..MaxTitleLen}

\* a song with the given title
TitledSong(title) ==
    SongObject([name |-> title, artists |-> <<"x">>], [genres |-> <<"pop">>],
               [genres |-> <<"pop">>], <<"yt", "t">>, None)

\* a tracking file of an earlier run, at a path of the user's choice
SavedPath == [dir |-> "saved", name |-> <<"s">>, ext |-> "spotdlTrackingFile"]

\* A tracker is given one queue, the first song under any title, or loads the
\* saved file; then its songs are completed in any order.
InitNaming ==
    /\ pool_size = DefaultPoolSize
    /\ DownloadManager(<<>>)
    /\ call = NoCall
    /\ files = {}
    /\ tracking_files \in
           {<<>>, With(<<>>, SavedPath, StrDumps(DataDumps(<<Catalog[2], Catalog[4]>>)))}

NextNaming ==
    \/ /\ tracker_op = "__init__"
       /\ \E title \in Titles :
              DownloadTracker_load_song_list(<<TitledSong(title), Catalog[2]>>)
    \/ /\ tracker_op = "__init__"
       /\ \E path \in DOMAIN tracking_files : DownloadTracker_load_tracking_file(path)
    \/ \E k \in 1..Len(song_list) :
           DownloadTracker_notify_download_completion(song_list[k])

SpecNaming == InitNaming /\ [][NextNaming]_vars

\* --------------------------------------- provider_utils._parse_duration
MaxComponent == 3

Digits == <<"0", "1", "2", "3", "4", "5", "6", "7", "8", "9">>

DigitValue(c) == (CHOOSE k \in 1..Len(Digits) : Digits[k] = c) - 1

IsDigit(c) == \E k \in 1..Len(Digits) : Digits[k] = c

\* str.split(":")
RECURSIVE Split(_)
Split(str) ==
    IF str = <<>> THEN << <<>> >>
    ELSE LET rest == Split(Tail(str))
         IN  IF Head(str) = ":" THEN << <<>> >> \o rest
             ELSE << <<Head(str)>> \o rest[1] >> \o Tail(rest)

\* str.strip() of blanks, as int() does before it reads the number
RECURSIVE StripLeft(_)
StripLeft(str) ==
    IF str # <<>> /\ Head(str) = " " THEN StripLeft(Tail(str)) ELSE str

RECURSIVE StripRight(_)
StripRight(str) ==
    IF str # <<>> /\ str[Len(str)] = " "
    THEN StripRight(SubSeq(str, 1, Len(str) - 1)) ELSE str

\* the digits of int(time): the text without blanks around it and without sign
Unsigned(time) ==
    LET text == StripRight(StripLeft(time))
    IN  IF text # <<>> /\ Head(text) \in {"+", "-"} THEN Tail(text) ELSE text

\* int(time) raises ValueError unless the text is an optional sign and digits
IntRaises(time) ==
    \/ Unsigned(time) = <<>>
    \/ \E k \in 1..Len(Unsigned(time)) : ~IsDigit(Unsigned(time)[k])

RECURSIVE DecimalValue(_)
DecimalValue(digits) ==
    IF digits = <<>> THEN 0
    ELSE 10 * DecimalValue(SubSeq(digits, 1, Len(digits) - 1))
         + DigitValue(digits[Len(digits)])

\* int(time) of a text that int() accepts
int(time) ==
    LET text == StripRight(StripLeft(time))
    IN  IF Head(text) = "-" THEN 0 - DecimalValue(Unsigned(time))
        ELSE DecimalValue(Unsigned(time))

\* multipliers that count the hours as minutes
increments_minutes == <<1, 60, 60>>

\* the multipliers zipped with the reversed components
increments == <<1, 60, 3600>>

RECURSIVE SumOf(_)
SumOf(numbers) ==
    IF numbers = <<>> THEN 0 ELSE Head(numbers) + SumOf(Tail(numbers))

\* provider_utils._parse_duration: the seconds (a float with that value), 0
\* when int() raises for a component
_parse_duration(duration) ==
    LET parts == Split(duration)
        n == Len(parts)
        \* zip stops with the shorter of its arguments
        m == IF n < Len(increments) THEN n ELSE Len(increments)
        mapped_increments == [k \in 1..m |-> <<increments[k], parts[n + 1 - k]>>]
    IN  IF \E k \in 1..m : IntRaises(mapped_increments[k][2])
        THEN 0
        ELSE SumOf([k \in 1..m |->
                 mapped_increments[k][1] * int(mapped_increments[k][2])])

\* the decimal text of a number
RECURSIVE Decimal(_)
Decimal(number) ==
    IF number < 10 THEN <<Digits[number + 1]>>
    ELSE Decimal(number \div 10) \o <<Digits[(number % 10) + 1]>>

\* a number as a provider writes it into a duration: with two digits at least
\* when it is padded
Written(number, padded) ==
    IF padded /\ number < 10 THEN <<"0">> \o Decimal(number) ELSE Decimal(number)

\* the values of the hours, minutes and seconds of a duration
ComponentValues == (0..MaxComponent) \cup {59, 60, 99}

\* "H:MM:SS", "MM:SS" and "S" as providers write them: components that are
\* not padded, all padded, or all but the first padded
RECURSIVE Joined(_, _)
Joined(numbers, padding) ==
    IF Len(numbers) = 1 THEN Written(numbers[1], padding = "all")
    ELSE Written(numbers[1], padding = "all") \o <<":">>
         \o Joined(Tail(numbers), IF padding = "none" THEN "none" ELSE "all")

DurationInputs ==
    {[components |-> numbers, duration |-> Joined(numbers, padding)] :
        numbers \in UNION {[1..n -> ComponentValues] : n \in 1..3},
        padding \in {"none", "all", "tail"}}

InitDuration ==
    /\ pool_size = DefaultPoolSize
    /\ DownloadManager(<<>>)
    /\ files = {}
    /\ tracking_files = <<>>
    /\ \E input \in DurationInputs :
           call = [function |-> "_parse_duration", args |-> <<input.duration>>,
                   components |-> input.components, returned |-> FALSE,
                   result |-> 0]

\* _parse_duration(duration) returns
ParseDurationReturns ==
    /\ call.function = "_parse_duration"
    /\ ~call.returned
    /\ call' = [call EXCEPT !.returned = TRUE,
                            !.result = _parse_duration(call.args[1])]
    /\ UNCHANGED <<_instance, arguments, thread_executor, display_manager, pool_size,
                   semaphore, loop, song_obj_list, task, song_list, save_file, tracker_op,
                   files, tracking_files, song_list_id>>

NextDuration == ParseDurationReturns

SpecDuration == InitDuration /\ [][NextDuration]_vars

\* ------------------------------- provider_utils._map_result_to_song_data
MaxDurationLen == 7

\* the characters of a duration text: a digit, the separator, a letter
DurationChars == {"1", ":", "x"}

\* the texts a provider can send as a duration: every text of these
\* characters, and some texts with other characters
DurationTexts ==
    UNION {[1..n -> DurationChars] : n \in 0..MaxDurationLen}
        \cup {<<"a", "b", "c">>, <<"1", ":", "x", "x">>, <<"x", "x", ":", "3", "0">>,
              <<"0", "2", ":", "0", "3">>, <<"-", "1", ":", "3", "0">>,
              <<" ", "5">>, <<"1", ":", "2", ":", "3", ":", "4">>}

\* the results of a search: with a duration, or without the key
SearchResults ==
    {[videoId |-> "v"]} \cup {[videoId |-> "v", duration |-> text] : text \in DurationTexts}

\* the "length" of _map_result_to_song_data:
\* _parse_duration(result.get("duration", None)); None has no split, the
\* AttributeError is caught and the length is 0
song_data_length(result) ==
    IF "duration" \in DOMAIN result THEN _parse_duration(result.duration) ELSE 0

InitLength ==
    /\ pool_size = DefaultPoolSize
    /\ DownloadManager(<<>>)
    /\ files = {}
    /\ tracking_files = <<>>
    /\ \E result \in SearchResults :
           call = [function |-> "_map_result_to_song_data", args |-> <<result>>,
                   returned |-> FALSE, result |-> 0]

\* _map_result_to_song_data(result) returns: the length of its song data
MapResultReturns ==
    /\ call.function = "_map_result_to_song_data"
    /\ ~call.returned
    /\ call' = [call EXCEPT !.returned = TRUE,
                            !.result = song_data_length(call.args[1])]
    /\ UNCHANGED <<_instance, arguments, thread_executor, display_manager, pool_size,
                   semaphore, loop, song_obj_list, task, song_list, save_file, tracker_op,
                   files, tracking_files, song_list_id>>

NextLength == MapResultReturns

SpecLength == InitLength /\ [][NextLength]_vars

\* ------------------------------------------------ progress of the batch
MaxProgressSongs == 2

\* the chunks pytube writes for one audio stream, at most
MaxChunks == 3

\* pytube calls the progress hook in the thread of the fetch, for a chunk
\* that is not the last of the stream
ProgressHook(i) ==
    /\ loop \in {"running", "blocked", "raised"}
    /\ task[i].pc = "fetching"
    /\ i \in thread_executor.running
    /\ task[i].tracker = "sound"
    /\ display_manager.trackers[i] < MaxChunks - 1
    /\ display_manager' = pytube_progress_hook(display_manager, i)
    /\ UNCHANGED <<_instance, arguments, thread_executor, call, pool_size, semaphore, loop,
                   song_obj_list, task, song_list, save_file, tracker_op, files,
                   tracking_files, song_list_id>>

InitProgress ==
    /\ Init
    /\ files \in SUBSET {ConvertedFilePath[Catalog[k]] : k \in 1..MaxProgressSongs}

NextProgress ==
    \/ \E n \in 0..MaxProgressSongs : download_multiple_songs(n)
    \/ \E i \in Tasks : _pool_download(i)
    \/ \E i \in Tasks : StreamLookup(i)
    \/ \E i \in Tasks : ProgressHook(i)
    \/ \E i \in Tasks : _perform_audio_download(i)
    \/ \E i \in Tasks : AfterDownload(i)
    \/ \E i \in Tasks : FfmpegExit(i)
    \/ \E i \in Tasks : AfterConvert(i)
    \/ BatchReturn
    \/ BatchRaise

SpecProgress == InitProgress /\ [][NextProgress]_vars

\* ------------------------------------------- trackers of every kind
MaxObserverSongs == 2

\* a display manager that hands out trackers of every kind
InitObserver ==
    /\ pool_size \in PoolSizes
    /\ arguments = [format |-> "mp3"]
    /\ semaphore = pool_size
    /\ loop = "idle"
    /\ song_obj_list = <<>>
    /\ task = <<>>
    /\ song_list = <<>>
    /\ song_list_id = OwnList
    /\ save_file = NoPath
    /\ tracker_op = "__init__"
    /\ display_manager = [DisplayManager EXCEPT !.hands_out = TrackerKinds]
    /\ thread_executor = ThreadPoolExecutor(pool_size)
    /\ _instance = NoInstance
    /\ call = NoCall
    /\ files \in SUBSET {ConvertedFilePath[Catalog[k]] : k \in 1..MaxObserverSongs}
    /\ tracking_files = <<>>

NextObserver ==
    \/ \E n \in 0..MaxObserverSongs : download_multiple_songs(n)
    \/ \E i \in Tasks : _pool_download(i)
    \/ \E i \in Tasks : StreamLookup(i)
    \/ \E i \in Tasks : _perform_audio_download(i)
    \/ \E i \in Tasks : AfterDownload(i)
    \/ \E i \in Tasks : FfmpegExit(i)
    \/ \E i \in Tasks : AfterConvert(i)
    \/ BatchReturn
    \/ BatchRaise

SpecObserver == InitObserver /\ [][NextObserver]_vars

\* ------------------------------------------------------- SpotifyClient
MaxInits == 4

\* the test that guards init, for a client that exists, taken as passing
init_guard_raises_never(instance) == FALSE

\* "cls._instance and cls._instance.is_initialized" raises: None is falsy and
\* the test is False; a client is truthy and has no attribute is_initialized
\* (its property is spelled is_intialized), the test raises AttributeError
init_guard_raises(instance) == instance # NoInstance

\* no call of SpotifyClient yet: "inits" counts the calls of init, "created"
\* lists the clients init has returned
NoClientCall ==
    [function |-> "None", args |-> <<>>, inits |-> 0, error |-> "", result |-> NoInstance,
     created |-> <<>>]

ClientArgs == {"id", "other id"} \X {"secret"} \X BOOLEAN

\* the client number n that init constructs for these arguments: user_auth
\* chooses its auth manager
Client(n, args) ==
    [number |-> n,
     auth_manager |-> [class |-> IF args[3] THEN "SpotifyOAuth"
                                 ELSE "SpotifyClientCredentials",
                       client_id |-> args[1], client_secret |-> args[2]],
     _initialized |-> TRUE]

\* SpotifyClient.init(client_id, client_secret, user_auth)
SpotifyClient_init(args) ==
    /\ "inits" \in DOMAIN call
    /\ call.inits < MaxInits
    /\ LET c == [call EXCEPT !.function = "init", !.args = args, !.inits = @ + 1]
       IN  IF init_guard_raises(_instance)
           THEN /\ call' = [c EXCEPT !.error = "AttributeError", !.result = NoInstance]
                /\ UNCHANGED _instance
           ELSE \/ \* the credential manager or the constructor of the client
                   \* raises: no client is cached
                   /\ call' = [c EXCEPT !.error = "SpotifyException",
                                        !.result = NoInstance]
                   /\ UNCHANGED _instance
                \/ \* super().__call__(auth_manager=...) returns a new client
                   /\ _instance' = Client(c.inits, args)
                   /\ call' = [c EXCEPT !.error = "", !.result = _instance',
                                        !.created = Append(@, _instance')]
    /\ UNCHANGED <<arguments, thread_executor, display_manager, pool_size, semaphore, loop,
                   song_obj_list, task, song_list, save_file, tracker_op, files,
                   tracking_files, song_list_id>>

\* SpotifyClient(): Singleton.__call__
SpotifyClient_call ==
    /\ "inits" \in DOMAIN call
    /\ call' = IF _instance = NoInstance
               THEN [call EXCEPT !.function = "__call__", !.args = <<>>,
                                 !.error = "Exception", !.result = NoInstance]
               ELSE [call EXCEPT !.function = "__call__", !.args = <<>>,
                                 !.error = "", !.result = _instance]
    /\ UNCHANGED <<_instance, arguments, thread_executor, display_manager, pool_size,
                   semaphore, loop, song_obj_list, task, song_list, save_file, tracker_op,
                   files, tracking_files, song_list_id>>

InitClient ==
    /\ pool_size = DefaultPoolSize
    /\ DownloadManager(<<>>)
    /\ files = {}
    /\ tracking_files = <<>>
    /\ call = NoClientCall

NextClient ==
    \/ \E args \in ClientArgs : SpotifyClient_init(args)
    \/ SpotifyClient_call

SpecClient == InitClient /\ [][NextClient]_vars

\* -------------------------------------- two releases of a song in a batch
MaxReleaseSongs == 2

\* a batch of n songs in which every song of the catalog is followed by its
\* other release: a, a (other release), b, ...
Releases(n) ==
    [k \in 1..n |-> IF k % 2 = 1 THEN Catalog[(k + 1) \div 2]
                    ELSE OtherRelease(Catalog[k \div 2])]

InitReleases ==
    /\ Init
    /\ files = {}

NextReleases ==
    \/ \E n \in 0..MaxReleaseSongs : download_multiple_songs_of(Releases(n))
    \/ \E i \in Tasks : _pool_download(i)
    \/ \E i \in Tasks : StreamLookup(i)
    \/ \E i \in Tasks : _perform_audio_download(i)
    \/ \E i \in Tasks : AfterDownload(i)
    \/ \E i \in Tasks : FfmpegExit(i)
    \/ \E i \in Tasks : AfterConvert(i)
    \/ BatchReturn
    \/ BatchRaise

SpecReleases == InitReleases /\ [][NextReleases]_vars

\* ---------------------------------------- provider_utils._match_percentage
MaxMatchLen == 2

\* an emoji, as one character of a string
Emoji == "(emoji)"

\* the characters of the strings that are compared: a letter, a digit, a
\* space, a punctuation mark and an emoji
MatchChars == {"a", "1", " ", "!", Emoji}

MatchStrings == UNION {[1..n -> MatchChars] : n \in 0..MaxMatchLen}

ScoreCutoffs == {0, 60}

\* a test that lets every character through
isalnum_or_isspace_always(each_letter) == TRUE

\* "each_letter.isalnum() or each_letter.isspace()"
isalnum_or_isspace(each_letter) == each_letter \in {"a", "1", " "}

\* the loops that build new_str1 and new_str2, letter by letter
RECURSIVE new_str(_)
new_str(str) ==
    IF str = <<>> THEN <<>>
    ELSE (IF isalnum_or_isspace(Head(str)) THEN <<Head(str)>> ELSE <<>>)
             \o new_str(Tail(str))

\* the length of the longest common subsequence of two strings
RECURSIVE LongestCommon(_, _)
LongestCommon(s, t) ==
    IF s = <<>> \/ t = <<>> THEN 0
    ELSE IF Head(s) = Head(t) THEN 1 + LongestCommon(Tail(s), Tail(t))
    ELSE LET left == LongestCommon(Tail(s), t)
             right == LongestCommon(s, Tail(t))
         IN  IF left >= right THEN left ELSE right

\* fuzz.ratio: the share of the characters of both strings that are common
ratio(s, t) ==
    IF Len(s) + Len(t) = 0 THEN 100
    ELSE (200 * LongestCommon(s, t)) \div (Len(s) + Len(t))

\* the best ratio of the shorter string against a window of its length in
\* the longer one
BestWindow(short, long) ==
    LET scores == {ratio(short, SubSeq(long, k, k + Len(short) - 1)) :
                       k \in 1..(Len(long) - Len(short) + 1)}
    IN  CHOOSE best \in scores : \A score \in scores : score <= best

\* rapidfuzz.fuzz.partial_ratio(s, t, score_cutoff): raises for a string with
\* an emoji in it; else the best ratio, 0 when that is below the cutoff
partial_ratio(s, t, score_cutoff) ==
    IF \E k \in 1..Len(s) : s[k] = Emoji THEN [raised |-> TRUE, value |-> 0]
    ELSE IF \E k \in 1..Len(t) : t[k] = Emoji THEN [raised |-> TRUE, value |-> 0]
    ELSE LET best == IF Len(s) <= Len(t) THEN BestWindow(s, t) ELSE BestWindow(t, s)
         IN  [raised |-> FALSE, value |-> IF best < score_cutoff THEN 0 ELSE best]

\* provider_utils._match_percentage(str1, str2, score_cutoff): the score, or
\* the exception that leaves the function
_match_percentage(str1, str2, score_cutoff) ==
    IF ~partial_ratio(str1, str2, score_cutoff).raised
    THEN partial_ratio(str1, str2, score_cutoff)
    ELSE partial_ratio(new_str(str1), new_str(str2), score_cutoff)

InitMatch ==
    /\ pool_size = DefaultPoolSize
    /\ DownloadManager(<<>>)
    /\ files = {}
    /\ tracking_files = <<>>
    /\ \E str1 \in MatchStrings, str2 \in MatchStrings, score_cutoff \in ScoreCutoffs :
           call = [function |-> "_match_percentage",
                   args |-> <<str1, str2, score_cutoff>>, returns |-> <<>>]

\* a call of _match_percentage with the arguments of the call before it
MatchPercentageReturns ==
    /\ call.function = "_match_percentage"
    /\ Len(call.returns) < 2
    /\ call' = [call EXCEPT !.returns =
           Append(@, _match_percentage(call.args[1], call.args[2], call.args[3]))]
    /\ UNCHANGED <<_instance, arguments, thread_executor, display_manager, pool_size,
                   semaphore, loop, song_obj_list, task, song_list, save_file, tracker_op,
                   files, tracking_files, song_list_id>>

NextMatch == MatchPercentageReturns

SpecMatch == InitMatch /\ [][NextMatch]_vars

\* ------------------------------------------------------------ song_gatherer
MaxListed == 3

\* None where the id of a track is expected (a local track of a playlist);
\* the tracks of the catalog have the ids 1, 2, ...
NoId == 0

\* None where a youtube link is expected
NoLink == <<>>

\* None where from_spotify_url returns no song
NoSong == [song |-> None]

\* None where a response of the Spotify client is expected
NoResponse == [page |-> 0, items |-> <<>>, next |-> 0]

\* the "limit" of a paginated call: the number of items on a full page
PageLimits == {1, 2}

\* a listing of the catalog as the pages the client is sent
RECURSIVE Paged(_, _)
Paged(items, limit) ==
    IF Len(items) <= limit THEN <<items>>
    ELSE <<SubSeq(items, 1, limit)>> \o Paged(SubSeq(items, limit + 1, Len(items)), limit)

\* the response for a page of a listing: its items and the cursor "next"
Response(listing, page) ==
    [page |-> page, items |-> listing[page],
     next |-> IF page < Len(listing) THEN page + 1 ELSE 0]

\* an item of an album's track listing: the track itself, with "id", "name",
\* "uri" and "artists" (from_album reads track["id"], from_artist
\* track["name"], track["uri"] and track["artists"])
AlbumTrack(k) ==
    [id |-> k, name |-> <<Letters[k]>>, uri |-> k, artists |-> <<[id |-> "artist"]>>]

\* an item of a playlist or of the saved tracks: the track is under "track"
\* (from_playlist reads track["track"]["id"]); a local track has no id
PlaylistTrack(k) == [track |-> [id |-> k]]

\* 'track.get("track", {}).get("id") is not None'
has_track_id(track) ==
    IF "track" \in DOMAIN track THEN track.track.id # NoId ELSE FALSE

\* "[track for track in response["items"] if track.get("track", {}).get("id")
\* is not None]"
with_track_id(items) == SelectSeq(items, has_track_id)

\* the items taken from the first response: from_playlist filters them,
\* from_album, from_saved_tracks and from_artist (albums) take them all
first_items(function, items) ==
    IF function = "from_playlist" THEN with_track_id(items) ELSE items

\* the items taken from a later response: all albums of an artist, the items
\* with a track id elsewhere
next_items(function, items) ==
    IF function = "from_artist" THEN items ELSE with_track_id(items)

\* the id from_spotify_url is called with for an item
url_id(function, track) ==
    IF function = "from_album" THEN track.id
    ELSE IF function = "from_artist" THEN track.uri
    ELSE track.track.id

\* the albums of the artist, the third one a second release of the first
ArtistAlbums ==
    <<[name |-> "x", uri |-> 1], [name |-> "y", uri |-> 2], [name |-> "x", uri |-> 3]>>

\* spotify_client.album_tracks(album_uri) with one track to a page: album 1
\* has a page of tracks, album 2 has two, album 3 has three
AlbumTracks(album_uri) == Paged([k \in 1..album_uri |-> AlbumTrack(k)], 1)

\* "Remove duplicate albums": the uri of the first album of every name, in
\* the order of the list
albums_object(albums_list) ==
    LET first == {k \in 1..Len(albums_list) :
                      \A j \in 1..(k - 1) : albums_list[j].name # albums_list[k].name}
        uris == [k \in 1..Len(albums_list) |-> albums_list[k].uri]
    IN  SelectSeq(uris, LAMBDA uri : \E k \in first : albums_list[k].uri = uri)

\* "Filter tracks to remove duplicates and songs without our artist": of
\* every name the first track, kept if the artist is among its artists
tracks_object(tracks_list, artist_id) ==
    LET kept == {k \in 1..Len(tracks_list) :
                     /\ \A j \in 1..(k - 1) : tracks_list[j].name # tracks_list[k].name
                     /\ \E a \in 1..Len(tracks_list[k].artists) :
                            tracks_list[k].artists[a].id = artist_id}
    IN  SelectSeq(tracks_list, LAMBDA track : \E k \in kept : tracks_list[k] = track)

\* a from_spotify_url that returns a song whatever the search has found
from_spotify_url_always(id, youtube_link) ==
    [Catalog[id] EXCEPT !.youtubeLink = youtube_link]

\* from_spotify_url after the search: "if youtube_link is None: ... return
\* None", else the song with its link
from_spotify_url(id, youtube_link) ==
    IF youtube_link = NoLink THEN NoSong
    ELSE [Catalog[id] EXCEPT !.youtubeLink = youtube_link]

\* "song is not None and song.youtube_link is not None"
has_youtube_link(song) ==
    IF song = NoSong THEN FALSE ELSE song.youtubeLink # NoLink

\* a call of a function of song_gatherer: its arguments, its place, its local
\* variables, the pages it has received and the calls of from_spotify_url it
\* has made
GatherCall(function, args) ==
    [function |-> function, args |-> args, pc |-> "called", response |-> NoResponse,
     items |-> <<>>, index |-> 1, searched |-> <<>>, tracks |-> <<>>, error |-> "",
     requests |-> 0, pages |-> <<>>, albums |-> <<>>, album |-> 1,
     tracks_list |-> <<>>]

\* a request of a page has been made ("requests" counts the requests whose
\* response the function looks at)
Request(c) == [c EXCEPT !.requests = @ + 1]

\* the place after a response: the loop over the pages goes on while the
\* response has a cursor, then the albums of an artist are looked up and the
\* songs of the other listings are created
AfterResponse(c, break) ==
    IF ~break /\ c.response.next # 0 THEN [c EXCEPT !.pc = "paging"]
    ELSE IF c.function = "from_artist"
    THEN [c EXCEPT !.pc = "album", !.albums = albums_object(c.items)]
    ELSE [c EXCEPT !.pc = "creating"]

GatherUnchanged ==
    UNCHANGED <<_instance, arguments, thread_executor, display_manager, pool_size,
                semaphore, loop, song_obj_list, task, song_list, save_file, tracker_op,
                files, tracking_files, song_list_id>>

\* from_album, from_playlist, from_saved_tracks, from_artist up to the loop
\* over the pages: the first request and the items of its response
FirstResponse ==
    /\ call.function \in {"from_album", "from_playlist", "from_saved_tracks",
                          "from_artist"}
    /\ call.pc = "called"
    /\ \/ \* no response: "raise ValueError" ("raise Exception")
          call' = [Request(call) EXCEPT !.pc = "raised",
                       !.error = IF call.function = "from_saved_tracks"
                                 THEN "Exception" ELSE "ValueError"]
       \/ LET response == Response(call.args[1], 1)
          IN  call' = AfterResponse([Request(call) EXCEPT
                          !.response = response,
                          !.pages = <<1>>,
                          !.items = first_items(call.function, response.items)],
                          FALSE)
    /\ GatherUnchanged

\* one round of "while response["next"]": the next page is asked for
NextResponse ==
    /\ call.function \in {"from_album", "from_playlist", "from_saved_tracks",
                          "from_artist"}
    /\ call.pc = "paging"
    /\ \/ \* no response: "break" (from_album and from_playlist have assigned
          \* it to their response)
          call' = AfterResponse([Request(call) EXCEPT !.response =
                      IF call.function \in {"from_album", "from_playlist"}
                      THEN NoResponse ELSE @], TRUE)
       \/ LET response == Response(call.args[1], call.response.next)
          IN  call' = AfterResponse([Request(call) EXCEPT
                          !.response = response,
                          !.pages = Append(@, response.page),
                          !.items = @ \o next_items(call.function, response.items)],
                          FALSE)
    /\ GatherUnchanged

\* from_artist, one round of "for album_uri in albums_object.values()" up to
\* the loop over the pages of the album; after the last album the tracks are
\* filtered
ArtistAlbumTracks ==
    /\ call.function = "from_artist"
    /\ call.pc = "album"
    /\ IF call.album > Len(call.albums)
       THEN call' = [call EXCEPT !.pc = "creating", !.index = 1,
                         !.items = tracks_object(call.tracks_list, "artist")]
       ELSE \/ \* no response: "continue"
               call' = [Request(call) EXCEPT !.album = @ + 1]
            \/ LET response == Response(AlbumTracks(call.albums[call.album]), 1)
                   album_tracks == with_track_id(response.items)
               IN  call' = IF response.next # 0
                           THEN [Request(call) EXCEPT !.pc = "album paging",
                                     !.response = response, !.items = album_tracks]
                           ELSE [Request(call) EXCEPT !.album = @ + 1,
                                     !.tracks_list = @ \o album_tracks]
    /\ GatherUnchanged

\* from_artist, 'while album_response["next"]': the next page of the album
\* is asked for, "spotify_client.next(album_response)"
ArtistAlbumTracksNext ==
    /\ call.function = "from_artist"
    /\ call.pc = "album paging"
    /\ call' = [call EXCEPT !.pc = "album next"]
    /\ GatherUnchanged

\* from_artist, the rest of the round: what spotify_client.next has returned
\* is dropped, the items of the response at hand are taken once more, and
\* the test of the loop reads the same response again
ArtistAlbumTracksNextReturns ==
    /\ call.function = "from_artist"
    /\ call.pc = "album next"
    /\ LET c == [call EXCEPT !.items = @ \o with_track_id(call.response.items)]
       IN  call' = IF c.response.next # 0 THEN [c EXCEPT !.pc = "album paging"]
                   ELSE [c EXCEPT !.pc = "album", !.album = @ + 1,
                             !.tracks_list = @ \o c.items]
    /\ GatherUnchanged

\* from_spotify_url(url) for the track with the given id: None for a song
\* whose file is there, else the search and its result
SearchOutcomes(id) ==
    IF is_file(files, converted_file_path_of(Catalog[id]))
    THEN {[id |-> id, outcome |-> "skipped", song |-> NoSong,
           printed |-> "Skipping ... as it's already downloaded"]}
    ELSE {[id |-> id, outcome |-> "no match",
           song |-> from_spotify_url(id, NoLink),
           printed |-> "Could not match any of the results on YouTube. Skipping"],
          [id |-> id, outcome |-> "found",
           song |-> from_spotify_url(id, Catalog[id].youtubeLink),
           printed |-> "Found YouTube URL for ..."]}

\* one round of "for track in ...": from_spotify_url, and the song is
\* appended if it has a link
CreateSong ==
    /\ call.function \in {"from_album", "from_playlist", "from_saved_tracks",
                          "from_artist"}
    /\ call.pc = "creating"
    /\ call.index <= Len(call.items)
    /\ \E searched \in SearchOutcomes(url_id(call.function, call.items[call.index])) :
           call' = [call EXCEPT !.index = @ + 1,
                        !.searched = Append(@, searched),
                        !.tracks = IF has_youtube_link(searched.song)
                                   THEN Append(@, searched.song) ELSE @]
    /\ GatherUnchanged

\* "return tracks"
GatherReturns ==
    /\ call.function \in {"from_album", "from_playlist", "from_saved_tracks",
                          "from_artist"}
    /\ call.pc = "creating"
    /\ call.index > Len(call.items)
    /\ call' = [call EXCEPT !.pc = "returned"]
    /\ GatherUnchanged

\* parse_request for the url of a track: "song = from_spotify_url(request,
\* ...); song_list = [song] if song is not None else []"
parse_request_track ==
    /\ call.function = "from_spotify_url"
    /\ call.pc = "called"
    /\ \E searched \in SearchOutcomes(call.args[1]) :
           call' = [call EXCEPT !.pc = "returned",
                        !.searched = Append(@, searched),
                        !.tracks = IF searched.song # NoSong
                                   THEN <<searched.song>> ELSE <<>>]
    /\ GatherUnchanged

\* the items of a playlist of n tracks: tracks of the catalog, a track more
\* than once, local tracks
PlaylistItems(n) == [1..n -> {PlaylistTrack(k) : k \in {NoId, 1, 2}}]

\* the first n albums of the artist
ArtistAlbumList(n) ==
    SubSeq(ArtistAlbums, 1, IF n < Len(ArtistAlbums) THEN n ELSE Len(ArtistAlbums))

\* the calls of song_gatherer: an album, a playlist, the saved tracks (all
\* of them with an id), the albums of an artist, a track
GatherCalls ==
    UNION {
        {GatherCall("from_album", <<Paged([k \in 1..n |-> AlbumTrack(k)], limit)>>),
         GatherCall("from_saved_tracks",
                    <<Paged([k \in 1..n |-> PlaylistTrack(k)], limit)>>),
         GatherCall("from_artist", <<Paged(ArtistAlbumList(n), limit)>>)}
            \cup {GatherCall("from_playlist", <<Paged(items, limit)>>) :
                      items \in PlaylistItems(n)}
        : n \in 0..MaxListed, limit \in PageLimits}
        \cup {GatherCall("from_spotify_url", <<k>>) : k \in 1..MaxListed}

InitGather ==
    /\ pool_size = DefaultPoolSize
    /\ DownloadManager(<<>>)
    /\ files \in SUBSET {ConvertedFilePath[Catalog[1]]}
    /\ tracking_files = <<>>
    /\ call \in GatherCalls

NextGather ==
    \/ FirstResponse
    \/ NextResponse
    \/ ArtistAlbumTracks
    \/ ArtistAlbumTracksNext
    \/ ArtistAlbumTracksNextReturns
    \/ CreateSong
    \/ GatherReturns
    \/ parse_request_track

SpecGather == InitGather /\ [][NextGather]_vars

\* a call of song_gatherer is not left alone in the middle
FairGather == SpecGather /\ WF_vars(NextGather)

\* ------------------------------------------------ from a query to a batch
MaxQueryTracks == 2

\* the caller of parse_query hands the songs it returns to the download
\* manager as one batch
console_entry_point ==
    /\ "tracks" \in DOMAIN call
    /\ call.pc = "returned"
    /\ download_multiple_songs_of(call.tracks)

\* the requests of a query: the url of an album, the url of a track
QueryCalls ==
    {GatherCall("from_album", <<Paged([k \in 1..n |-> AlbumTrack(k)], limit)>>) :
         n \in 0..MaxQueryTracks, limit \in PageLimits}
        \cup {GatherCall("from_spotify_url", <<k>>) : k \in 1..MaxQueryTracks}

InitQuery ==
    /\ pool_size = DefaultPoolSize
    /\ DownloadManager(<<>>)
    /\ files \in SUBSET {ConvertedFilePath[Catalog[1]]}
    /\ tracking_files = <<>>
    /\ call \in QueryCalls

NextQuery ==
    \/ FirstResponse
    \/ NextResponse
    \/ CreateSong
    \/ GatherReturns
    \/ parse_request_track
    \/ console_entry_point
    \/ \E i \in Tasks : _pool_download(i)
    \/ \E i \in Tasks : StreamLookup(i)
    \/ \E i \in Tasks : _perform_audio_download(i)
    \/ \E i \in Tasks : AfterDownload(i)
    \/ \E i \in Tasks : FfmpegExit(i)
    \/ \E i \in Tasks : AfterConvert(i)
    \/ BatchReturn
    \/ BatchRaise

SpecQuery == InitQuery /\ [][NextQuery]_vars

\* ------------------------------------------------------------------ claims
\* the pipelines inside "async with self.semaphore"
Holders == {i \in Tasks : task[i].pc \notin {"pending", "done"}}

Songs(i) == song_obj_list[i]

CountCalls(name) ==
    Cardinality({i \in Tasks : \E k \in 1..Len(task[i].calls) : task[i].calls[k] = name})

Called(i, name) == \E k \in 1..Len(task[i].calls) : task[i].calls[k] = name

\* C1: in every reachable state the number of pipelines that hold the
\* admission semaphore is at most pool_size, and the semaphore's value is the
\* number of free slots.
C1_PoolBound ==
    /\ Cardinality(Holders) <= pool_size
    /\ semaphore = pool_size - Cardinality(Holders)

\* a batch of 3 x pool_size songs with every slot taken and a task waiting
C1_Witness ==
    /\ loop = "running"
    /\ Len(song_obj_list) = 3 * pool_size
    /\ Cardinality(Holders) = pool_size
    /\ \E i \in Tasks : task[i].pc = "pending"

\* C2: under fairness the batch call ends for every batch, and when it
\* returns every pipeline is in a terminal state and every semaphore slot is
\* released.
C2_Terminates ==
    /\ <>(loop \in {"returned", "raised"})
    /\ [](loop = "returned" =>
            /\ \A i \in Tasks : task[i].pc = "done" /\ task[i].state \in Terminal
            /\ semaphore = pool_size)

\* a returned batch of several songs, one failed and one complete
C2_Witness ==
    /\ loop = "returned"
    /\ Len(song_obj_list) >= 2
    /\ \E i, j \in Tasks : task[i].state = "Failed" /\ task[j].state = "Complete"

\* C3 (as claimed): no failure of a pipeline step makes the batch call raise.
C3_NeverRaises == loop # "raised"

\* C4 (as claimed): when the batch has returned, every failed item has been
\* reported by notify_error; with 3 items of which the second one's fetch
\* failed and the others completed, the aggregator has 2 completions and 1
\* error.
C4_FailuresReported ==
    loop = "returned" =>
        /\ \A i \in Tasks : task[i].state = "Failed" => Called(i, "notify_error")
        /\ ( /\ Len(song_obj_list) = 3
             /\ task[1].state = "Complete"
             /\ task[2].downloaded = None
             /\ task[3].state = "Complete" )
           => /\ CountCalls("notify_download_completion") = 2
              /\ CountCalls("notify_error") = 1


\* the songs of the batch whose pipeline has not reached one of the given
\* states, in the order of the batch
RECURSIVE SongsNotIn(_, _)
SongsNotIn(n, states) ==
    IF n = 0 THEN <<>>
    ELSE SongsNotIn(n - 1, states)
         \o (IF task[n].state \in states THEN <<>> ELSE <<song_obj_list[n]>>)

\* the record list of the tracker's backing file (none without a file)
DiskRecords ==
    IF save_file \in DOMAIN tracking_files
    THEN EvalDumps(tracking_files[save_file]) ELSE <<>>

\* C5 (as claimed): after load_song_list or notify_download_completion has
\* returned, the records of the backing file are the dumps of the in-memory
\* queue, and the queue is the batch without the items that reached Complete
\* or Skipped.
C5_TrackingInvariant ==
    tracker_op \in {"load_song_list", "notify_download_completion"} =>
        /\ DiskRecords = DataDumps(song_list)
        /\ song_list = SongsNotIn(Len(song_obj_list), {"Complete", "Skipped"})

\* the songs a resume reads from the snapshot the process left on disk
ReloadedSnapshot ==
    IF save_file \in DOMAIN tracking_files
    THEN load_tracking_file(tracking_files[save_file]) ELSE <<>>

\* C6 (as claimed): when a batch is interrupted, load_tracking_file on the
\* snapshot left on disk yields exactly the items of the batch that were not
\* finished.
C6_ResumeCorrect ==
    loop = "interrupted" =>
        ReloadedSnapshot = SongsNotIn(Len(song_obj_list), {"Complete", "Skipped"})

\* C7 (as claimed): every item of the queue, written to a snapshot and read
\* back, is equal to itself: from_dump(x.data_dump) == x.
C7_DumpRoundTrip ==
    \A k \in 1..Len(song_list) :
        /\ SongEq(from_dump(data_dump(song_list[k])), song_list[k])
        /\ load_tracking_file(StrDumps(DataDumps(song_list)))[k] = song_list[k]

C9_ConvertFailureKept ==
    \A i \in Tasks :
        (task[i].returncode = 1 /\ task[i].pc = "done") =>
            /\ task[i].state = "Failed"
            /\ ~Called(i, "notify_download_completion")
            /\ ~Called(i, "tracker.notify_download_completion")
            /\ Contains(song_list, Songs(i))
            /\ \E k \in 1..Len(DiskRecords) : DiskRecords[k] = data_dump(Songs(i))

\* C10: once the pipeline of an item whose transcoder failed has ended, no
\* file is at the item's final path; and a file appears at a final path only
\* when the transcoder of that item writes it, so a file at a final path after
\* a run was there before or comes from a transcode that did not fail.
C10_NoPartialArtifact ==
    /\ [](\A i \in Tasks :
            (task[i].returncode = 1 /\ task[i].pc = "done")
                => ConvertedFilePath[Songs(i)] \notin files)
    /\ [][\A path \in (files' \ files) \cap FinalPaths :
            \E i \in Tasks :
                /\ path = ConvertedFilePath[Songs(i)]
                /\ task[i].pc = "converting"
                /\ task'[i].pc = "converted"]_vars

\* a transcoder that failed after writing a partial file, pipeline ended
C10_Witness ==
    \E i \in Tasks :
        /\ task[i].returncode = 1
        /\ task[i].pc = "done"
        /\ Called(i, "tracker.notify_download_completion")


\* C11: once notify_download_completion has removed the last pending item the
\* backing file is not on disk, whatever the order of the completions; and no
\* tracking file on disk ever holds an empty record list.
C11_SnapshotDeleted ==
    /\ (tracker_op = "notify_download_completion" /\ song_list = <<>>)
           => save_file \notin DOMAIN tracking_files
    /\ \A path \in DOMAIN tracking_files : tracking_files[path] # <<>>

\* a batch of several songs, a backing file named, the last item just removed
C11_Witness ==
    /\ tracker_op = "notify_download_completion"
    /\ song_list = <<>>
    /\ save_file # NoPath
    /\ Len(song_obj_list) = MaxSongs
    /\ \E i, j \in Tasks : task[i].state = "Complete" /\ task[j].state = "Skipped"

\* the final file of item i was on disk when its pipeline started: it is
\* there and the transcoder of this run has not written it
FileWasThere(i) ==
    /\ task[i].pc # "pending"
    /\ task[i].returncode = -1
    /\ converted_file_path_of(Songs(i)) \in files

\* the pipeline of item i ended by an exception before the final-path check
\* (progress tracker, temporary folder or path computation)
FailedBeforeCheck(i) ==
    /\ task[i].state = "Failed"
    /\ task[i].calls \in {<<"new_progress_tracker">>,
                          <<"new_progress_tracker", "notify_error">>}

\* C12: an item whose final file is already on disk is never fetched,
\* transcoded or tagged; its pipeline ends in its first step, and unless a step
\* before the final-path check raised it ends Skipped with one skip
\* notification and the item marked complete in the tracker.  While every item
\* of the batch has its final file from before, no step changes the set of
\* converted files: a second run over a completed batch skips every item and
\* leaves the artifacts as they are.
C12_Idempotent ==
    /\ [](\A i \in Tasks :
            FileWasThere(i) =>
                /\ task[i].pc = "done"
                /\ \A name \in {"YouTube", "download", "convert", "set_id3_data"} :
                       ~Called(i, name)
                /\ \/ FailedBeforeCheck(i)
                   \/ /\ task[i].state = "Skipped"
                      /\ task[i].calls = <<"new_progress_tracker",
                                           "notify_download_skip",
                                           "tracker.notify_download_completion">>
                      /\ ~Contains(song_list, Songs(i)))
    /\ [][(\A i \in Tasks : task[i].pc = "pending" \/ FileWasThere(i))
              => files' \cap FinalPaths = files \cap FinalPaths]_vars

\* a batch whose files were all there has returned: every item Skipped
C12_Witness ==
    /\ loop = "returned"
    /\ Len(song_obj_list) = MaxSongs
    /\ \A i \in Tasks : FileWasThere(i) /\ task[i].state = "Skipped"
    /\ song_list = <<>>

\* C13 (as claimed): when the process is killed, at any instant of a snapshot
\* rewrite included, every tracking file on disk holds records, and the backing
\* file holds the complete new record list (the dumps of the queue) or the
\* complete previous one (the queue with the item being removed still in it).
C13_RewriteAtomic ==
    loop = "interrupted" =>
        /\ \A path \in DOMAIN tracking_files : tracking_files[path] # <<>>
        /\ save_file \in DOMAIN tracking_files =>
               \/ DiskRecords = DataDumps(song_list)
               \/ \E i \in Tasks, k \in 0..Len(song_list) :
                      DiskRecords =
                          DataDumps(SubSeq(song_list, 1, k) \o <<Songs(i)>>
                                    \o SubSeq(song_list, k + 1, Len(song_list)))

\* C14 (as claimed): with a format that is not one of mp3, flac, ogg, opus,
\* m4a no pipeline does any work: no item is fetched, no temporary file is
\* written, no transcoder is called and no item fails after its fetch.
C14_FormatRejected ==
    arguments.format \notin DOMAIN formats =>
        \A i \in Tasks :
            /\ ~Called(i, "download")
            /\ ~Called(i, "convert")
            /\ TempFilePath(converted_file_path_of(Songs(i))) \notin files
            /\ task[i].downloaded = "unset"

\* the positions of a call in the calls of item i
CallsAt(i, name) == {k \in 1..Len(task[i].calls) : task[i].calls[k] = name}

\* C15: set_id3_data is called for an item at most once, and only after the
\* transcoder of that item has returned success (its fetch delivered a file,
\* convert was called before and the process exited with 0); it is never
\* called for a skipped item or an item whose fetch or transcode failed.
C15_TagAfterSuccess ==
    \A i \in Tasks :
        /\ Cardinality(CallsAt(i, "set_id3_data")) <= 1
        /\ Called(i, "set_id3_data") =>
               /\ task[i].downloaded = "path"
               /\ task[i].returncode = 0
               /\ \E c \in CallsAt(i, "convert") :
                      \A t \in CallsAt(i, "set_id3_data") : c < t
        /\ ( \/ task[i].state = "Skipped"
             \/ task[i].downloaded = None
             \/ task[i].returncode = 1 )
           => ~Called(i, "set_id3_data")

\* a returned batch with a tagged item, a failed transcode and a skipped item
C15_Witness ==
    /\ loop = "returned"
    /\ \E i, j, k \in Tasks :
          /\ Called(i, "set_id3_data") /\ task[i].state = "Complete"
          /\ task[j].returncode = 1 /\ task[j].pc = "done"
          /\ task[k].state = "Skipped"

\* C16 (as claimed): once notify_download_completion has been called for an
\* item, the queue holds no element structurally equal to it.
C16_NoEqualLeft ==
    \A i \in Tasks :
        Called(i, "tracker.notify_download_completion")
            => ~Contains(song_list, Songs(i))

\* the items equal to item k for which notify_download_completion was called
EqualNotified(k) ==
    {j \in Tasks : /\ SongEq(Songs(j), Songs(k))
                   /\ Called(j, "tracker.notify_download_completion")}

\* the batch without, for each song, as many of its first occurrences as
\* notify_download_completion was called for it: what is left of the first n
RECURSIVE KeptQueue(_)
KeptQueue(n) ==
    IF n = 0 THEN <<>>
    ELSE KeptQueue(n - 1)
         \o (IF Cardinality({j \in 1..n : SongEq(Songs(j), Songs(n))})
                    > Cardinality(EqualNotified(n))
             THEN <<Songs(n)>> ELSE <<>>)

\* C16 (amended): each call of notify_download_completion removes one element
\* structurally equal to the item, the first one; every other element, further
\* equal ones included, stays in its original relative order; and the snapshot
\* is rewritten to match (deleted when the queue is empty).
C16_RemovesFirstEqual ==
    tracker_op \in {"load_song_list", "notify_download_completion"} =>
        /\ song_list = KeptQueue(Len(song_obj_list))
        /\ DiskRecords = DataDumps(song_list)
        /\ song_list = <<>> => save_file \notin DOMAIN tracking_files

\* the completion of one of two equal tracks has been recorded: the other one
\* is still queued, behind the track that was between them
C16_Witness ==
    /\ tracker_op = "notify_download_completion"
    /\ Len(song_obj_list) = MaxPlaylistSongs
    /\ \E i \in Tasks :
          /\ Called(i, "tracker.notify_download_completion")
          /\ Contains(song_list, Songs(i))
    /\ Len(song_list) = 2
    /\ ~SongEq(song_list[1], song_list[2])

\* C17: a load_tracking_file that raises FileNotFoundError leaves the queue,
\* the backing-file reference and the disk as they were; and a load that
\* returns has taken a file that exists, so a load of a missing path raises.
C17_LoadMissingPath ==
    /\ [][tracker_op' = "FileNotFoundError" =>
              /\ song_list' = song_list
              /\ save_file' = save_file
              /\ tracking_files' = tracking_files
              /\ files' = files]_vars
    /\ [][DownloadTracker_load_tracking_file(MissingPath) =>
              tracker_op' = "FileNotFoundError"]_vars
    /\ [](tracker_op = "load_tracking_file" => save_file \in DOMAIN tracking_files)

\* a load of a missing path has raised on a tracker that has a queue and a
\* backing file on disk
C17_Witness ==
    /\ tracker_op = "FileNotFoundError"
    /\ Len(song_list) = MaxQueue
    /\ save_file \in DOMAIN tracking_files
    /\ MissingPath \notin DOMAIN tracking_files

\* C18: clear() empties the queue and forgets the backing file and changes
\* nothing on disk; the load_song_list that follows it names its snapshot after
\* the first song of the new queue, writes the new queue there and leaves
\* every other tracking file as it is.
C18_ClearForgets ==
    /\ [][tracker_op' = "clear" =>
              /\ song_list' = <<>>
              /\ save_file' = NoPath
              /\ tracking_files' = tracking_files
              /\ files' = files]_vars
    /\ [][(tracker_op = "clear" /\ tracker_op' = "load_song_list"
                                /\ song_list' # <<>>) =>
              /\ save_file' = TrackingFileName(song_list'[1])
              /\ tracking_files'[save_file'] = StrDumps(DataDumps(song_list'))
              /\ \A path \in DOMAIN tracking_files \ {save_file'} :
                     /\ path \in DOMAIN tracking_files'
                     /\ tracking_files'[path] = tracking_files[path]]_vars

\* after a clear() a new queue was loaded: its snapshot has the name of its
\* first song, and the snapshot of the forgotten file is still on disk
C18_Witness ==
    /\ tracker_op = "load_song_list"
    /\ song_list # <<>>
    /\ save_file = TrackingFileName(song_list[1])
    /\ \E path \in DOMAIN tracking_files :
          /\ path # save_file
          /\ tracking_files[path] # StrDumps(DataDumps(song_list))

\* what one character of a title becomes in the name of a tracking file
NameChar(c) ==
    IF c \in {"/", "?", "\\", "*", "|", "<", ">"} THEN <<>>
    ELSE IF c = "\"" THEN <<"'">>
    ELSE IF c = ":" THEN <<" ", "-", " ">>
    ELSE <<c>>

RECURSIVE DerivedName(_)
DerivedName(title) ==
    IF title = <<>> THEN <<>>
    ELSE NameChar(Head(title)) \o DerivedName(Tail(title))

\* C19: a tracker without a backing file that is given a queue names its
\* snapshot after the first song's title: the characters / ? \ * | < > are
\* removed, each double quote becomes a single quote and each colon becomes
\* " - ", so the name holds none of those characters.  A tracker that has a
\* backing file, derived or loaded, keeps it: every later rewrite and the
\* final deletion change that file and no other.
C19_SnapshotNaming ==
    /\ [][(save_file = NoPath /\ tracker_op' = "load_song_list") =>
              /\ save_file'.name = DerivedName(song_name(song_list'[1]))
              /\ save_file'.dir = "." /\ save_file'.ext = "spotdlTrackingFile"
              /\ \A k \in 1..Len(save_file'.name) :
                     save_file'.name[k] \notin DisallowedChars \cup {"\"", ":"}
              /\ Len(save_file'.name) =
                     Len(SelectSeq(song_name(song_list'[1]),
                                   LAMBDA c : c \notin DisallowedChars))
                     + 2 * Len(SelectSeq(song_name(song_list'[1]),
                                         LAMBDA c : c = ":"))
              /\ tracking_files'[save_file'] = StrDumps(DataDumps(song_list'))]_vars
    /\ [][save_file # NoPath =>
              /\ save_file' = save_file
              /\ \A path \in (DOMAIN tracking_files \cup DOMAIN tracking_files')
                                 \ {save_file} :
                     /\ path \in DOMAIN tracking_files
                     /\ path \in DOMAIN tracking_files'
                     /\ tracking_files'[path] = tracking_files[path]
              /\ IF song_list' = <<>>
                 THEN save_file \notin DOMAIN tracking_files'
                 ELSE tracking_files'[save_file] = StrDumps(DataDumps(song_list'))]_vars

\* the queue of a title with a slash, a quote or a colon is done: its
\* snapshot had a derived name and is deleted
C19_Witness ==
    /\ tracker_op = "notify_download_completion"
    /\ song_list = <<>>
    /\ save_file # NoPath /\ save_file # SavedPath
    /\ save_file.name \in {<<"'">>, <<" ", "-", " ">>, <<"a", "'">>, <<>>}
    /\ save_file \notin DOMAIN tracking_files

\* C20: for a duration written from non-negative hours, minutes and seconds
\* _parse_duration returns 3600*h + 60*m + s, for minutes and seconds 60*m + s,
\* for seconds alone s; "1:02:03" gives 3723 and "02:03" gives 123.
C20_ParseDuration ==
    call.returned =>
        LET c == call.components
        IN  /\ Len(c) = 3 => call.result = 3600 * c[1] + 60 * c[2] + c[3]
            /\ Len(c) = 2 => call.result = 60 * c[1] + c[2]
            /\ Len(c) = 1 => call.result = c[1]
            /\ call.args[1] = <<"1", ":", "0", "2", ":", "0", "3">>
                   => call.result = 3723
            /\ call.args[1] = <<"0", "2", ":", "0", "3">> => call.result = 123

\* "1:02:03" has been parsed
C20_Witness ==
    /\ call.returned
    /\ call.args[1] = <<"1", ":", "0", "2", ":", "0", "3">>
    /\ call.components = <<1, 2, 3>>
    /\ call.result = 3723

\* a text of one, two or three components, each made of digits
WellFormedDuration(text) ==
    /\ text # <<>>
    /\ \A k \in 1..Len(text) : text[k] = ":" \/ IsDigit(text[k])
    /\ Cardinality({k \in 1..Len(text) : text[k] = ":"}) <= 2
    /\ text[1] # ":" /\ text[Len(text)] # ":"
    /\ \A k \in 1..(Len(text) - 1) : ~(text[k] = ":" /\ text[k + 1] = ":")

\* C21 (as claimed): the length is 0 for a result without duration and for
\* every duration text that is not HH:MM:SS, MM:SS or bare seconds: the empty
\* text, a text with a component that is not a number, a text of more than
\* three components.
C21_ZeroOnMalformed ==
    call.returned =>
        LET result == call.args[1]
        IN  ("duration" \notin DOMAIN result \/ ~WellFormedDuration(result.duration))
                => call.result = 0

\* the sum of the progress the trackers have reported
RECURSIVE SumOfTrackers(_)
SumOfTrackers(trackers) ==
    IF DOMAIN trackers = {} THEN 0
    ELSE LET i == CHOOSE j \in DOMAIN trackers : TRUE
         IN  trackers[i] + SumOfTrackers([j \in DOMAIN trackers \ {i} |-> trackers[j]])

IsPrefix(a, b) == Len(a) <= Len(b) /\ SubSeq(b, 1, Len(a)) = a

\* what the pipeline of item i did, the calls of its tracker left out
PipelineSteps(i) ==
    SelectSeq(task[i].calls,
              LAMBDA c : c \notin TrackerCallbacks \cup {"new_progress_tracker"})

\* the pipeline of item i has looked for the converted file, and it is there
\* now (what was at the final path before is unknown until the pipeline looks)
AtFinalPath(i) ==
    /\ task[i].outcomes # <<>>
    /\ task[i].outcomes[1] # "mkdir raises"
    /\ is_file(files, converted_file_path_of(song_obj_list[i]))

\* C23 (as claimed): the aggregator is a pure observer.  Two pipelines that
\* have ended and met the same external outcomes, as far as the shorter one
\* went, differ at most in their trackers: they met the same outcomes to the
\* end, went through the same steps to the same state, made the same update
\* of the tracking store, left the same files, and both raised or neither.
C23_PureObserver ==
    \A i, j \in Tasks :
        ( /\ task[i].pc = "done"
          /\ task[j].pc = "done"
          /\ IsPrefix(task[i].outcomes, task[j].outcomes) )
        => /\ task[i].outcomes = task[j].outcomes
           /\ task[i].state = task[j].state
           /\ PipelineSteps(i) = PipelineSteps(j)
           /\ task[i].raised = task[j].raised
           /\ is_file(files, TempFilePath(converted_file_path_of(song_obj_list[i])))
                  = is_file(files, TempFilePath(converted_file_path_of(song_obj_list[j])))
           /\ AtFinalPath(i) => AtFinalPath(j)

\* C24: whatever calls of init and of SpotifyClient() came before, a call of
\* SpotifyClient() raises if no init has returned a client and returns the
\* client init created otherwise; init creates one client at most, and the
\* cached client is never replaced.
C24_Singleton ==
    /\ [](call.function = "__call__" =>
              IF call.created = <<>>
              THEN call.error = "Exception"
              ELSE call.error = "" /\ call.result = call.created[1])
    /\ [](Len(call.created) <= 1)
    /\ [][_instance # NoInstance => _instance' = _instance]_vars

\* SpotifyClient() has returned the client of the one successful init, after
\* an init that failed before it and one that was refused after it
C24_Witness ==
    /\ call.function = "__call__"
    /\ call.inits = MaxInits
    /\ Len(call.created) = 1
    /\ call.created[1].number = 2
    /\ call.result = call.created[1]

\* the place of a step in download_song
StepRank ==
    [c \in {"new_progress_tracker", "notify_download_skip", "YouTube", "download",
            "notify_youtube_download_completion", "convert",
            "notify_conversion_completion", "set_id3_data",
            "notify_download_completion", "tracker.notify_download_completion",
            "notify_error"} |->
        CASE c = "new_progress_tracker" -> 0
          [] c = "notify_download_skip" -> 1
          [] c = "YouTube" -> 2
          [] c = "download" -> 3
          [] c = "notify_youtube_download_completion" -> 4
          [] c = "convert" -> 5
          [] c = "notify_conversion_completion" -> 6
          [] c = "set_id3_data" -> 7
          [] c = "notify_download_completion" -> 8
          [] c = "tracker.notify_download_completion" -> 9
          [] c = "notify_error" -> 10]

\* the place of a coroutine's position
PcRank ==
    [p \in {"pending", "lookup", "fetching", "fetched", "converting", "converted",
            "done"} |->
        CASE p = "pending" -> 0
          [] p = "lookup" -> 1
          [] p = "fetching" -> 2
          [] p = "fetched" -> 3
          [] p = "converting" -> 4
          [] p = "converted" -> 5
          [] p = "done" -> 6]

\* C25: the steps of one item come one after the other and only forward: the
\* steps taken so far are in the order of the pipeline (final-path check,
\* fetch, transcode, tag, completion notifications) with no step twice; a
\* step is taken only when the one before it has finished (the transcoder is
\* called on a fetched file, the tag is written after the transcoder has
\* exited with 0); the position of an item never goes back; and an item that
\* has ended takes no further step.
C25_ForwardOnly ==
    /\ [](\A i \in Tasks :
            /\ \A k \in 1..(Len(task[i].calls) - 1) :
                   StepRank[task[i].calls[k]] < StepRank[task[i].calls[k + 1]]
            /\ Called(i, "download") =>
                   /\ task[i].outcomes # <<>>
                   /\ task[i].outcomes[1] = "stream"
            /\ Called(i, "convert") => task[i].downloaded = "path"
            /\ Called(i, "notify_conversion_completion") => task[i].returncode # -1
            /\ Called(i, "set_id3_data") => task[i].returncode = 0
            /\ task[i].state \in Terminal <=> task[i].pc = "done")
    /\ [][\A i \in Tasks :
            song_obj_list' = song_obj_list =>
                /\ PcRank[task'[i].pc] >= PcRank[task[i].pc]
                /\ task[i].pc = "done" => task'[i] = task[i]]_vars

\* the two items of a batch have ended after every step of the pipeline,
\* their steps interleaved (the second was admitted while the first fetched)
C25_Witness ==
    /\ Len(task) = 2
    /\ pool_size = 2
    /\ \A i \in Tasks :
           /\ task[i].pc = "done"
           /\ task[i].calls = <<"new_progress_tracker", "YouTube", "download",
                                "notify_youtube_download_completion", "convert",
                                "notify_conversion_completion", "set_id3_data",
                                "notify_download_completion",
                                "tracker.notify_download_completion">>
    /\ display_manager.trackers[1] = MaxChunks + 3

\* C26 (as claimed): the loop is never held up by the network call of one
\* item: while a batch runs and an item waits for the network (the lookup of
\* its stream or the fetch of its audio), every other admitted pipeline whose
\* awaited result is there can take its next step.
C26_LoopNeverBlocked ==
    \A i, j \in Tasks :
        ( /\ loop \in {"running", "blocked"}
          /\ i # j
          /\ task[i].pc \in {"lookup", "fetching"}
          /\ task[j].pc \in {"fetched", "converted"} )
        => ENABLED (AfterDownload(j) \/ AfterConvert(j))

\* C27: the thread pool is as large as the semaphore and an admitted pipeline
\* has one fetch in flight at most, so the fetches that run in the pool are
\* no more than the pipelines that hold a slot, and these no more than
\* pool_size; a fetch that is handed to the pool runs at once and never
\* queues for a worker; and while the batch runs some step can always be
\* taken: semaphore and pool do not block each other.
C27_PoolMatchesGate ==
    /\ thread_executor.max_workers = pool_size
    /\ Cardinality(thread_executor.running) <= Cardinality(Holders)
    /\ Cardinality(Holders) <= pool_size
    /\ thread_executor.running \subseteq Holders
    /\ thread_executor.queue = <<>>
    /\ \A i \in Tasks : task[i].pc = "fetching" => i \in thread_executor.running
    /\ loop \in {"running", "blocked"} => ENABLED NextFair

\* every worker of a pool of two runs a fetch, every slot is held
C27_Witness ==
    /\ loop = "running"
    /\ pool_size = 2
    /\ thread_executor.running = {1, 2}
    /\ Cardinality(Holders) = 2
    /\ semaphore = 0

\* the step is the completion or skip callback of item i, on the loop: its
\* coroutine ends with the tracker's notify_download_completion, no other
\* coroutine and no worker of the pool takes part, and the tracking files are
\* those of one backup_to_disk of the new queue
CompletionCallback(i) ==
    /\ loop = "running"
    /\ task[i].pc # "done"
    /\ task'[i].pc = "done"
    /\ task'[i].calls # <<>>
    /\ task'[i].calls[Len(task'[i].calls)] = "tracker.notify_download_completion"
    /\ \A j \in Tasks \ {i} : task'[j] = task[j]
    /\ thread_executor' = thread_executor
    /\ tracker_op' = "notify_download_completion"
    /\ tracking_files' = backup_to_disk(song_list', save_file, tracking_files).tracking_files

\* C28: the tracking file has one writer.  A step that rewrites or deletes a
\* tracking file is the initial load of a batch or the completion or skip
\* callback of one item, run by the loop; a worker of the pool never writes,
\* and a step holds one rewrite, so that no two rewrites overlap.
C28_SingleWriter ==
    [][tracking_files' # tracking_files =>
           \/ loop = "idle" /\ tracker_op' = "load_song_list"
           \/ \E i \in Tasks : CompletionCallback(i)]_vars

\* an item was marked complete and the snapshot rewritten while the fetch of
\* another item ran in a worker of the pool
C28_Witness ==
    /\ loop = "running"
    /\ tracker_op = "notify_download_completion"
    /\ save_file \in DOMAIN tracking_files
    /\ \E i, j \in Tasks :
           /\ task[i].state = "Complete"
           /\ task[j].pc = "fetching"
           /\ j \in thread_executor.running

\* the fetched file of item i is in use: its fetch has written it and its
\* pipeline has not ended
HasFetched(i) ==
    /\ task[i].pc \in {"fetched", "converting", "converted"}
    /\ task[i].downloaded = "path"

\* C29 (as claimed): two items of a batch that are not equal and are admitted
\* at the same time have different temporary paths and different final
\* paths, also when they agree in title and artists and differ in album or
\* link; so the fetched file of an item stays where it is until the item's
\* own pipeline deletes it.
C29_NoSharedPath ==
    /\ \A i, j \in Holders :
           (i # j /\ ~SongEq(Songs(i), Songs(j)))
           => /\ converted_file_path_of(Songs(i)) # converted_file_path_of(Songs(j))
              /\ TempFilePath(converted_file_path_of(Songs(i)))
                     # TempFilePath(converted_file_path_of(Songs(j)))
    /\ \A i \in Tasks :
           HasFetched(i) => is_file(files, TempFilePath(converted_file_path_of(Songs(i))))

\* C30 (as claimed): once the pipeline of an item has ended, in whatever way
\* (complete, skipped, fetch failed, transcoder failed, an exception after the
\* fetch), no temporary file of the item is left in the Temp folder.
C30_TempCleaned ==
    \A i \in Tasks :
        task[i].pc = "done"
            => ~is_file(files, TempFilePath(converted_file_path_of(Songs(i))))


\* a pipeline whose tag writer set_id3_data raised after a transcode that
\* succeeded
TagFailed(i) ==
    /\ task[i].pc = "done"
    /\ Len(task[i].outcomes) > 0
    /\ task[i].outcomes[Len(task[i].outcomes)] = "set_id3_data raises"

\* C31 (as claimed): a tagging failure is not fatal: when set_id3_data raises
\* after a successful transcode the converted file is kept, and the item still
\* finishes as Complete: completion is notified, the item is removed from the
\* tracking queue and the temporary file is deleted.
C31_TagFailureNonFatal ==
    \A i \in Tasks :
        TagFailed(i)
            => /\ is_file(files, converted_file_path_of(Songs(i)))
               /\ task[i].state = "Complete"
               /\ ~Contains(song_list, Songs(i))
               /\ ~is_file(files, TempFilePath(converted_file_path_of(Songs(i))))

\* C36: init takes effect once: a call of init made while a client is cached
\* raises and leaves the cached client as it is, and every later
\* SpotifyClient() still returns the client of the first init that succeeded.
C36_InitOnlyOnce ==
    /\ [][(/\ _instance # NoInstance
           /\ call'.function = "init"
           /\ call'.inits = call.inits + 1)
              => /\ call'.error # ""
                 /\ call'.result = NoInstance
                 /\ _instance' = _instance]_vars
    /\ [](call.function = "__call__" /\ call.created # <<>>
              => call.result = call.created[1] /\ _instance = call.created[1])

\* init has been refused while the client of an earlier init was cached
C36_Witness ==
    /\ call.function = "init"
    /\ call.error = "AttributeError"
    /\ Len(call.created) = 1
    /\ _instance = call.created[1]
    /\ call.args[1] # _instance.auth_manager.client_id

\* the items of the list object the caller handed to download_multiple_songs:
\* the tracker's queue while the tracker names that object, else the items
\* as they were handed over
CallerList == IF song_list_id = GivenList THEN song_list ELSE song_obj_list

\* C37 (as claimed): submitting a batch does not modify the caller's data:
\* after download_multiple_songs(song_list) has returned, the list the caller
\* passed holds the same items in the same order as before the call, whatever
\* items completed, were skipped or failed.
C37_CallerListUntouched ==
    loop = "returned" => CallerList = song_obj_list

\* a string with the characters left out that are neither alphanumeric nor
\* whitespace
AlnumAndSpace(str) == SelectSeq(str, LAMBDA c : c \in {"a", "1", " "})

\* the primary similarity routine raises on the arguments of the call
PrimaryRaises ==
    partial_ratio(call.args[1], call.args[2], call.args[3]).raised

ItemId(track) == IF "track" \in DOMAIN track THEN track.track.id ELSE track.id

\* the ids of the tracks with an id on the given pages of a listing, in the
\* order of the listing
RECURSIVE IdsOnPages(_, _)
IdsOnPages(listing, pages) ==
    IF pages = <<>> THEN <<>>
    ELSE LET page == listing[Head(pages)]
             ids == [k \in 1..Len(page) |-> ItemId(page[k])]
         IN  SelectSeq(ids, LAMBDA id : id # NoId)
                 \o IdsOnPages(listing, Tail(pages))

\* C34 (as claimed): a listing is read page by page until the cursor is
\* exhausted and every page is treated alike: when from_album, from_playlist
\* or from_saved_tracks returns, every page has been received unless a
\* request got no response, and from_spotify_url has been called for every
\* track with an id on every page received, the later pages included.
C34_EveryPageAlike ==
    (/\ call.function \in {"from_album", "from_playlist", "from_saved_tracks"}
     /\ call.pc = "returned")
        => /\ call.requests = Len(call.pages) => Len(call.pages) = Len(call.args[1])
           /\ [k \in 1..Len(call.searched) |-> call.searched[k].id]
                  = IdsOnPages(call.args[1], call.pages)

\* C35 (as claimed): every pagination loop terminates on a finite catalog:
\* a call of from_artist, from_album, from_playlist or from_saved_tracks
\* that is not left alone returns (or raises for a first request without a
\* response), also for an album with more than one page of tracks and when
\* a request for a next page gets no response.
C35_GatherTerminates ==
    <>(call.pc \in {"returned", "raised"})

\* the songs of the catalog for which the search has found a link, in the
\* order of the calls of from_spotify_url
FoundSongs ==
    LET found == SelectSeq(call.searched, LAMBDA searched : searched.outcome = "found")
    IN  [k \in 1..Len(found) |-> Catalog[found[k].id]]

\* C32: an item for which the search finds no link is a definite could not
\* resolve: it is reported and from_spotify_url returns no song for it, the
\* search is made once per item, and the batch that is downloaded consists of
\* the items with a link only: no step of a pipeline is made for the item
\* and it is never Complete.
C32_NoMatchStops ==
    /\ \A k \in 1..Len(call.searched) :
           call.searched[k].outcome = "no match"
               => /\ call.searched[k].song = NoSong
                  /\ call.searched[k].printed
                         = "Could not match any of the results on YouTube. Skipping"
    /\ Len(call.searched)
           <= (IF call.function = "from_spotify_url" THEN 1 ELSE Len(call.items))
    /\ Len(call.tracks) <= Len(FoundSongs)
    /\ loop # "idle"
           => /\ song_obj_list = FoundSongs
              /\ \A i \in Tasks : song_obj_list[i].youtubeLink # NoLink

\* of an album of two tracks the search has found no link for the first: the
\* batch is the second track alone, downloaded to its end
C32_Witness ==
    /\ call.function = "from_album"
    /\ Len(call.searched) = 2
    /\ call.searched[1].outcome = "no match"
    /\ call.searched[2].outcome = "found"
    /\ loop = "returned"
    /\ Len(song_obj_list) = 1
    /\ task[1].state = "Complete"
=============================================================================
